---- MODULE Spec2Model ----
(***************************************************************************)
(* A model of the analytics and reporting engine of                        *)
(* smart-work-sequencer-backend: the record store (core/models.py), the    *)
(* commit linker (integrations/services/github_service.py), the Jira sync  *)
(* (integrations/services/jira_service.py), the hygiene detector           *)
(* (reports/services/analytics_service.py) and the effort classifier       *)
(* (reports/services/ai_service.py).                                       *)
(*                                                                         *)
(* Strings that the code inspects character by character (commit messages, *)
(* ticket keys, ticket statuses) are sequences of one-character strings.   *)
(* Timestamps are integers; a calendar day is TicksPerDay ticks long, so   *)
(* that datetime.date() is a real, lossy conversion.                       *)
(***************************************************************************)
EXTENDS Integers, Sequences, FiniteSets, TLC

(***************************************************************************)
(* Bounds of the model.                                                    *)
(***************************************************************************)
MaxTime == 1
MaxWindowTime == 2
MaxRecords == 3
MaxAlerts == 2
MaxRaceRecords == 2
MaxRaceAlerts == 2
MaxResolveRecords == 2
MaxResolveAlerts == 3
MaxCommitsCount == 6
MaxStatusChanges == 1

\* datetime.date(): the calendar day of a timestamp.
TicksPerDay == 2

UserSeq == <<"u1", "u2">>
ShaSeq == <<"a", "b">>
JiraIdSeq == <<"j1", "j2">>
Repos == {"r1"}
ActivityIds == {"h1"}
WorklogIds == {"w1"}
Workers == {"p1", "p2"}

Times == 0..MaxTime
WindowTimes == 0..MaxWindowTime
Windows == {w \in WindowTimes \X WindowTimes : w[1] <= w[2]}

(***************************************************************************)
(* Characters and strings.                                                 *)
(***************************************************************************)
UpperAlphabet == <<"A", "B", "C", "D", "E", "F", "G", "H", "I", "J", "K", "L", "M", "N", "O", "P", "Q", "R", "S", "T", "U", "V", "W", "X", "Y", "Z">>

LowerAlphabet == <<"a", "b", "c", "d", "e", "f", "g", "h", "i", "j", "k", "l", "m", "n", "o", "p", "q", "r", "s", "t", "u", "v", "w", "x", "y", "z">>

DigitAlphabet == <<"0", "1", "2", "3", "4", "5", "6", "7", "8", "9">>

KeyA1 == <<"A", "-", "1">>
KeyB2 == <<"B", "-", "2">>
TicketKeys == {KeyA1, KeyB2}

\* "x", "x A-1", "A-1 B-2"
IngestMessages ==
    { <<"x">>,
      <<"x", " ", "A", "-", "1">>,
      <<"A", "-", "1", " ", "B", "-", "2">> }

NoTicket == <<>>
NoCommit == <<>>
NoStatus == <<>>
NoTime == <<>>

StatusDone == <<"D", "o", "n", "e">>
StatusInReview == <<"I", "n", " ", "R", "e", "v", "i", "e", "w">>
StatusInProgress == <<"I", "n", " ", "P", "r", "o", "g", "r", "e", "s", "s">>
ToStatusInputs == {StatusDone, StatusInReview}
TimeSpentInputs == {1800, 3600}
OneHourInputs == {3600}

VARIABLES tickets, commits, activities, worklogs, alerts, procs, effort,
          reports, extracted

vars == <<tickets, commits, activities, worklogs, alerts, procs, effort, reports,
          extracted>>

(***************************************************************************)
(* Linker: GitHubService.TICKET_PATTERN = ([A-Z]+-\d+) and                 *)
(* extract_ticket_keys.                                                    *)
(***************************************************************************)
\* [A-Z]
IsUpper(c) == \E i \in DOMAIN UpperAlphabet : UpperAlphabet[i] = c

\* \d, over the ASCII digits
IsDigit(c) == \E i \in DOMAIN DigitAlphabet : DigitAlphabet[i] = c

\* Last index of the maximal run of upper-case letters that starts at i.
UpperRunEnd(s, i) ==
    CHOOSE j \in i..Len(s) :
        /\ \A k \in i..j : IsUpper(s[k])
        /\ (j = Len(s) \/ ~IsUpper(s[j + 1]))

\* Last index of the maximal run of digits that starts at i.
DigitRunEnd(s, i) ==
    CHOOSE j \in i..Len(s) :
        /\ \A k \in i..j : IsDigit(s[k])
        /\ (j = Len(s) \/ ~IsDigit(s[j + 1]))

\* Index of the last character of the match of [A-Z]+-\d+ that starts at i,
\* or 0 when none starts there. Both quantifiers are greedy; a shorter run
\* of letters is followed by a letter, never by the hyphen, so backtracking
\* finds nothing the maximal run misses.
MatchEnd(s, i) ==
    IF ~IsUpper(s[i]) THEN 0
    ELSE LET u == UpperRunEnd(s, i)
         IN  IF u + 2 <= Len(s) /\ s[u + 1] = "-" /\ IsDigit(s[u + 2])
             THEN DigitRunEnd(s, u + 2)
             ELSE 0

\* re.findall: the non-overlapping matches, scanning from the left.
RECURSIVE FindAll(_, _)
FindAll(s, i) ==
    IF i > Len(s) THEN <<>>
    ELSE LET e == MatchEnd(s, i)
         IN  IF e = 0 THEN FindAll(s, i + 1)
             ELSE <<SubSeq(s, i, e)>> \o FindAll(s, e + 1)

\* list(set(matches)): the order of the list is the set's, so the model
\* keeps the set.
ExtractTicketKeys(commit_message) ==
    LET matches == FindAll(commit_message, 1)
    IN  {matches[k] : k \in DOMAIN matches}

(***************************************************************************)
(* Record store. tickets is a sequence in primary-key order (the primary   *)
(* key is a random uuid4; QuerySet.first() on the unordered Ticket model   *)
(* orders by it). alerts is a sequence in creation order; an alert's       *)
(* position stands for its id and its created_at.                          *)
(***************************************************************************)
TicketId(t) == <<t.user, t.jira_id>>

CommitId(c) == <<c.user, c.repository, c.sha>>

TicketSet == {tickets[i] : i \in DOMAIN tickets}

NumRecords ==
    Len(tickets) + Cardinality(commits) + Cardinality(activities)
        + Cardinality(worklogs)

IdleProc == [pc |-> "idle"]

NoAnalysis == "none"

NoEffort == [ticket_data |-> <<>>, analysis |-> NoAnalysis]

NoExtraction == [commit_message |-> <<>>, keys |-> <<>>, returned |-> FALSE]

Init ==
    /\ tickets = <<>>
    /\ commits = {}
    /\ activities = {}
    /\ worklogs = {}
    /\ alerts = <<>>
    /\ procs = [w \in Workers |-> IdleProc]
    /\ effort = NoEffort
    /\ reports = {}
    /\ extracted = NoExtraction

DateOf(t) == t \div TicksPerDay

InWindow(x, since, until) == since <= x /\ x <= until

(***************************************************************************)
(* GitHubService.sync_commits, for a response of one commit. The loop body *)
(* keeps nothing from one commit to the next and every update_or_create is *)
(* committed on its own, so a response of n commits is n such steps.       *)
(***************************************************************************)
\* Ticket.objects.filter(user=self.user, key__in=ticket_keys).first()
FirstMatchingTicket(tks, u, ticket_keys) ==
    LET hits == {i \in DOMAIN tks :
                    tks[i].user = u /\ tks[i].key \in ticket_keys}
    IN  IF hits = {} THEN NoTicket
        ELSE TicketId(tks[CHOOSE i \in hits : \A j \in hits : i <= j])

FindTicket(tks, u, ticket_keys) ==
    IF ticket_keys # {} THEN FirstMatchingTicket(tks, u, ticket_keys)
    ELSE NoTicket

IsUnlinked(ticket_keys, ticket) == Cardinality(ticket_keys) = 0

CommitRecord(u, repo, sha, message, at, tks) ==
    LET ticket_keys == ExtractTicketKeys(message)
        ticket == FindTicket(tks, u, ticket_keys)
    IN  [user |-> u, repository |-> repo, sha |-> sha,
         ticket |-> ticket, committed_at |-> at,
         extracted_ticket_keys |-> ticket_keys,
         is_unlinked |-> IsUnlinked(ticket_keys, ticket)]

\* Commit.objects.create(...) in the place of update_or_create.
InsertCommit(cs, rec) == cs \cup {rec}

\* Commit.objects.update_or_create(user, repository, sha, defaults=...)
UpsertCommit(cs, rec) ==
    {c \in cs : CommitId(c) # CommitId(rec)} \cup {rec}

SyncCommits(u, repo, sha, message, at) ==
    /\ commits' = UpsertCommit(commits,
                      CommitRecord(u, repo, sha, message, at, tickets))
    /\ UNCHANGED <<tickets, activities, worklogs, alerts, procs, effort, reports, extracted>>

(***************************************************************************)
(* JiraService.sync_ticket, sync_ticket_activities and sync_worklogs, each *)
(* for one issue, one changelog item or comment, one worklog.              *)
(***************************************************************************)
InsertAt(seq, i, x) == SubSeq(seq, 1, i - 1) \o <<x>> \o SubSeq(seq, i, Len(seq))

\* Ticket.objects.update_or_create(user, jira_id,
\*     defaults={'key': ..., 'status': ...})
UpsertTicket(tks, u, jira_id, key, status, pos) ==
    LET hits == {i \in DOMAIN tks :
                    tks[i].user = u /\ tks[i].jira_id = jira_id}
    IN  IF hits # {}
        THEN [i \in DOMAIN tks |->
                 IF i \in hits
                 THEN [tks[i] EXCEPT !.key = key, !.status = status]
                 ELSE tks[i]]
        ELSE InsertAt(tks, pos, [user |-> u, jira_id |-> jira_id, key |-> key,
                                 status |-> status])

\* pos is where the uuid4 of a new ticket falls among the stored ones.
SyncTicket(u, jira_id, key, status) ==
    /\ \E pos \in 1..(Len(tickets) + 1) :
           tickets' = UpsertTicket(tickets, u, jira_id, key, status, pos)
    /\ UNCHANGED <<commits, activities, worklogs, alerts, procs, effort, reports, extracted>>

\* TicketActivity.objects.update_or_create(user, ticket, jira_id, defaults)
UpsertActivity(acts, rec) ==
    {a \in acts : ~(/\ a.user = rec.user
                    /\ a.ticket = rec.ticket
                    /\ a.jira_id = rec.jira_id)} \cup {rec}

\* to_status is item.get('toString') for a status change and None otherwise.
ActivityRecord(u, ticket, jira_id, activity_type, to_status, at) ==
    [user |-> u, ticket |-> ticket, jira_id |-> jira_id,
     activity_type |-> activity_type,
     to_status |-> IF activity_type = "status_change" THEN to_status
                   ELSE NoStatus,
     activity_at |-> at]

SyncTicketActivities(u, ticket, jira_id, activity_type, to_status, at) ==
    /\ \E t \in TicketSet : t.user = u /\ TicketId(t) = ticket
    /\ activities' = UpsertActivity(activities,
            ActivityRecord(u, ticket, jira_id, activity_type, to_status, at))
    /\ UNCHANGED <<tickets, commits, worklogs, alerts, procs, effort, reports, extracted>>

\* Worklog.objects.update_or_create(user, jira_id, defaults={'ticket': ...})
UpsertWorklog(wls, rec) ==
    {w \in wls : ~(w.user = rec.user /\ w.jira_id = rec.jira_id)} \cup {rec}

WorklogRecord(u, ticket, jira_id, time_spent_seconds, at) ==
    [user |-> u, jira_id |-> jira_id, ticket |-> ticket,
     time_spent_seconds |-> time_spent_seconds, started_at |-> at]

SyncWorklogs(u, ticket, jira_id, time_spent_seconds, at) ==
    /\ \E t \in TicketSet : t.user = u /\ TicketId(t) = ticket
    /\ worklogs' = UpsertWorklog(worklogs,
            WorklogRecord(u, ticket, jira_id, time_spent_seconds, at))
    /\ UNCHANGED <<tickets, commits, activities, alerts, procs, effort, reports, extracted>>

ActivityTypes == {"status_change", "comment"}

(***************************************************************************)
(* AnalyticsService.detect_hygiene_issues.                                 *)
(***************************************************************************)
\* The rows of S as a queryset returns them under Meta.ordering =
\* ['-<field>']: descending in the field, rows that tie in either order.
RECURSIVE SortedDesc(_, _)
SortedDesc(S, field) ==
    IF S = {} THEN {<<>>}
    ELSE UNION {{<<x>> \o q : q \in SortedDesc(S \ {x}, field)} :
                   x \in {y \in S : \A z \in S : y[field] >= z[field]}}

\* The elements of seq that are in keep, in order.
KeepItems(seq, keep) ==
    LET F[i \in 0..Len(seq)] ==
            IF i = 0 THEN <<>>
            ELSE IF seq[i] \in keep THEN Append(F[i - 1], seq[i]) ELSE F[i - 1]
    IN  F[Len(seq)]

\* Commit.objects.filter(user, ticket, committed_at__gte, committed_at__lte).count()
CommitsCount(cs, u, ticket, since, until) ==
    Cardinality({c \in cs : /\ c.user = u
                            /\ c.ticket = ticket
                            /\ InWindow(c.committed_at, since, until)})

\* TicketActivity.objects.filter(user, ticket, activity_type='status_change',
\*                               activity_at__gte, activity_at__lte).count()
StatusChangesCount(acts, u, ticket, since, until) ==
    Cardinality({a \in acts : /\ a.user = u
                              /\ a.ticket = ticket
                              /\ a.activity_type = "status_change"
                              /\ InWindow(a.activity_at, since, until)})

Item(alert_type, severity, ticket, commit) ==
    [alert_type |-> alert_type, severity |-> severity,
     ticket |-> ticket, commit |-> commit]

\* UnlinkedCommits without committed_at__lte.
UnlinkedCommitsNoUntil(cs, u, since, until) ==
    {c \in cs : /\ c.user = u
                /\ c.is_unlinked
                /\ since <= c.committed_at}

\* Rule 1: the queryset of unlinked commits in the window.
UnlinkedCommits(cs, u, since, until) ==
    {c \in cs : /\ c.user = u
                /\ c.is_unlinked
                /\ InWindow(c.committed_at, since, until)}

Rule1Items(cs, u, since, until) ==
    {[i \in DOMAIN q |-> Item("commit_no_ticket", "warning", NoTicket, CommitId(q[i]))] :
        q \in SortedDesc(UnlinkedCommits(cs, u, since, until), "committed_at")}

\* Rule 2: values_list('ticket_id').distinct() over the status changes in
\* the window. The ordering column takes part in the DISTINCT, so a ticket
\* may come more than once; the loop body treats the repeat as a lookup hit.
TicketsWithStatusChanges(acts, u, since, until) ==
    {a \in acts : /\ a.user = u
                  /\ a.activity_type = "status_change"
                  /\ InWindow(a.activity_at, since, until)}

\* NeedsStatusNoCommit counting the commits of the ticket at any time.
NeedsStatusNoCommitAnyTime(cs, u, since, until, a) ==
    {c \in cs : c.user = u /\ c.ticket = a.ticket} = {}

NeedsStatusNoCommit(cs, u, since, until, a) ==
    CommitsCount(cs, u, a.ticket, since, until) = 0

Rule2Items(cs, acts, u, since, until) ==
    {LET kept == KeepItems(q, {a \in acts : NeedsStatusNoCommit(cs, u, since, until, a)})
     IN  [i \in DOMAIN kept |-> Item("status_no_commit", "info", kept[i].ticket, NoCommit)] :
        q \in SortedDesc(TicketsWithStatusChanges(acts, u, since, until), "activity_at")}

\* Rule 3: the tickets of the worklogs in the window.
TicketsWithWorklogs(wls, u, since, until) ==
    {w \in wls : w.user = u /\ InWindow(w.started_at, since, until)}

\* NeedsTimeNoCode giving way to rule 2.
NeedsTimeNoCodeUnlessStatusChange(cs, u, since, until, w) ==
    /\ CommitsCount(cs, u, w.ticket, since, until) = 0
    /\ StatusChangesCount(activities, u, w.ticket, since, until) = 0

NeedsTimeNoCode(cs, u, since, until, w) ==
    CommitsCount(cs, u, w.ticket, since, until) = 0

Rule3Items(cs, wls, u, since, until) ==
    {LET kept == KeepItems(q, {w \in wls : NeedsTimeNoCode(cs, u, since, until, w)})
     IN  [i \in DOMAIN kept |-> Item("time_no_code", "info", kept[i].ticket, NoCommit)] :
        q \in SortedDesc(TicketsWithWorklogs(wls, u, since, until), "started_at")}

\* Rule 4: the tickets of the linked commits in the window.
TicketsWithCommits(cs, u, since, until) ==
    {c \in cs : /\ c.user = u
                /\ InWindow(c.committed_at, since, until)
                /\ c.ticket # NoTicket}

\* NeedsStalledTicket counting the activities of every type.
NeedsStalledTicketAnyActivity(acts, u, since, until, c) ==
    {a \in acts : /\ a.user = u
                  /\ a.ticket = c.ticket
                  /\ InWindow(a.activity_at, since, until)} = {}

NeedsStalledTicket(acts, u, since, until, c) ==
    StatusChangesCount(acts, u, c.ticket, since, until) = 0

Rule4Items(cs, acts, u, since, until) ==
    {LET kept == KeepItems(q, {c \in cs : NeedsStalledTicket(acts, u, since, until, c)})
     IN  [i \in DOMAIN kept |-> Item("stalled_ticket", "warning", kept[i].ticket, NoCommit)] :
        q \in SortedDesc(TicketsWithCommits(cs, u, since, until), "committed_at")}

RuleItems(rule, u, since, until) ==
    CASE rule = 1 -> Rule1Items(commits, u, since, until)
      [] rule = 2 -> Rule2Items(commits, activities, u, since, until)
      [] rule = 3 -> Rule3Items(commits, worklogs, u, since, until)
      [] rule = 4 -> Rule4Items(commits, activities, u, since, until)

\* The lookup of get_or_create (rules 1, 2, 4) and of filter().exists()
\* (rule 3): user, alert_type, the commit or the ticket, and the two dates.
LookupMatches(a, u, it, ds, de) ==
    /\ a.user = u
    /\ a.alert_type = it.alert_type
    /\ IF it.alert_type = "commit_no_ticket"
       THEN a.commit = it.commit
       ELSE a.ticket = it.ticket
    /\ a.detected_for_start = ds
    /\ a.detected_for_end = de

\* Lookup without the exists() of rule 3.
LookupNotTimeNoCode(as, u, it, ds, de) ==
    IF it.alert_type = "time_no_code" THEN {}
    ELSE {i \in DOMAIN as : LookupMatches(as[i], u, it, ds, de)}

Lookup(as, u, it, ds, de) ==
    {i \in DOMAIN as : LookupMatches(as[i], u, it, ds, de)}

\* QuerySet.get raises MultipleObjectsReturned on two rows; exists() never.
LookupRaises(as, u, it, ds, de) ==
    /\ it.alert_type # "time_no_code"
    /\ Cardinality(Lookup(as, u, it, ds, de)) > 1

\* NewAlert with is_resolved already set.
NewAlertResolved(u, it, ds, de) ==
    [user |-> u, alert_type |-> it.alert_type, severity |-> it.severity,
     ticket |-> it.ticket, commit |-> it.commit,
     detected_for_start |-> ds, detected_for_end |-> de,
     is_resolved |-> TRUE, resolved_at |-> NoTime]

NewAlert(u, it, ds, de) ==
    [user |-> u, alert_type |-> it.alert_type, severity |-> it.severity,
     ticket |-> it.ticket, commit |-> it.commit,
     detected_for_start |-> ds, detected_for_end |-> de,
     is_resolved |-> FALSE, resolved_at |-> NoTime]

\* The four loops run one after the other over `items`.
RECURSIVE EmitAll(_, _, _, _, _, _)
EmitAll(as, items, u, ds, de, created) ==
    IF items = <<>>
    THEN [alerts |-> as, created |-> created, raised |-> FALSE]
    ELSE LET it == Head(items)
         IN  IF LookupRaises(as, u, it, ds, de)
             THEN [alerts |-> as, created |-> created, raised |-> TRUE]
             ELSE IF Lookup(as, u, it, ds, de) = {}
             THEN EmitAll(Append(as, NewAlert(u, it, ds, de)), Tail(items),
                          u, ds, de, Append(created, Len(as) + 1))
             ELSE EmitAll(as, Tail(items), u, ds, de, created)

\* Every outcome of one call: the final alert table, the ids of the alerts
\* the call created (the list it returns) and whether a lookup raised.
DetectRuns(as, u, since, until) ==
    {EmitAll(as, i1 \o i2 \o i3 \o i4, u, DateOf(since), DateOf(until), <<>>) :
        i1 \in Rule1Items(commits, u, since, until),
        i2 \in Rule2Items(commits, activities, u, since, until),
        i3 \in Rule3Items(commits, worklogs, u, since, until),
        i4 \in Rule4Items(commits, activities, u, since, until)}

DetectHygieneIssues(u, since, until) ==
    \E r \in DetectRuns(alerts, u, since, until) :
        /\ alerts' = r.alerts
        /\ UNCHANGED <<tickets, commits, activities, worklogs, procs, effort, reports, extracted>>
    
(***************************************************************************)
(* ResolveAlertsView.post                                                  *)
(***************************************************************************)
\* ResolveMatches without user=request.user.
ResolveMatchesAnyUser(as, i, u, alert_ids) ==
    /\ i \in alert_ids
    /\ ~as[i].is_resolved

\* filter(user=request.user, id__in=alert_ids, is_resolved=False); the id of
\* an alert is its position in the table.
ResolveMatches(as, i, u, alert_ids) ==
    /\ as[i].user = u
    /\ i \in alert_ids
    /\ ~as[i].is_resolved

\* .update(is_resolved=True, resolved_at=timezone.now()) and the count it
\* returns.
ResolveRun(as, u, alert_ids, now) ==
    LET hit == {i \in DOMAIN as : ResolveMatches(as, i, u, alert_ids)}
    IN  [alerts |-> [i \in DOMAIN as |->
                        IF i \in hit
                        THEN [as[i] EXCEPT !.is_resolved = TRUE,
                                           !.resolved_at = now]
                        ELSE as[i]],
         resolved_count |-> Cardinality(hit)]

ResolveAlerts(u, alert_ids, now) ==
    /\ alerts' = ResolveRun(alerts, u, alert_ids, now).alerts
    /\ UNCHANGED <<tickets, commits, activities, worklogs, procs, effort, reports, extracted>>

(***************************************************************************)
(* The inputs. Users, commit shas and Jira issue ids are opaque and        *)
(* interchangeable, so the calls introduce them in a fixed order: the      *)
(* second one is first used after the first one is stored.                 *)
(***************************************************************************)
Prefix(seq, n) == {seq[i] : i \in 1..(IF n < Len(seq) THEN n ELSE Len(seq))}

AllUsers == Prefix(UserSeq, Len(UserSeq))

HasRows(u) ==
    \/ \E t \in TicketSet : t.user = u
    \/ \E c \in commits : c.user = u

Users == Prefix(UserSeq, Cardinality({u \in Prefix(UserSeq, Len(UserSeq)) : HasRows(u)}) + 1)

ShasFor(u, repo) ==
    Prefix(ShaSeq, Cardinality({c \in commits : c.user = u /\ c.repository = repo}) + 1)

JiraIdsFor(u) ==
    Prefix(JiraIdSeq, Cardinality({t \in TicketSet : t.user = u}) + 1)

WithinBounds ==
    /\ NumRecords' <= MaxRecords
    /\ Len(alerts') <= MaxAlerts

SyncCommitsStep ==
    \E u \in Users, repo \in Repos, message \in IngestMessages, at \in Times :
        \E sha \in ShasFor(u, repo) :
            SyncCommits(u, repo, sha, message, at) /\ WithinBounds

SyncTicketStep ==
    \E u \in Users, key \in TicketKeys :
        \E jira_id \in JiraIdsFor(u) :
            SyncTicket(u, jira_id, key, StatusInProgress) /\ WithinBounds

SyncTicketActivitiesStep ==
    \E u \in Users, t \in TicketSet, aid \in ActivityIds,
       ty \in ActivityTypes, at \in Times :
        SyncTicketActivities(u, TicketId(t), aid, ty, StatusDone, at) /\ WithinBounds

SyncWorklogsStep ==
    \E u \in Users, t \in TicketSet, wid \in WorklogIds, at \in Times :
        \E secs \in OneHourInputs :
            SyncWorklogs(u, TicketId(t), wid, secs, at) /\ WithinBounds

DetectStep ==
    \E u \in Users, w \in Windows :
        DetectHygieneIssues(u, w[1], w[2]) /\ WithinBounds

\* The syncs and the detector, one call at a time. No query of theirs reads
\* is_resolved, so the resolve request takes part in SpecRace and
\* SpecResolve only.
Next ==
    \/ SyncCommitsStep
    \/ SyncTicketStep
    \/ SyncTicketActivitiesStep
    \/ SyncWorklogsStep
    \/ DetectStep

Spec == Init /\ [][Next]_vars

(***************************************************************************)
(* Two requests running detect_hygiene_issues at once                      *)
(* (DetectHygieneIssuesView.post, ReportService.generate_report). Each     *)
(* query is a statement of its own (autocommit), so a call is a sequence   *)
(* of steps: the evaluation of a rule's queryset, then for each row the    *)
(* lookup and, when it finds nothing, the insert. procs[p] is the position *)
(* of worker p in its call. The stored records change only between calls.  *)
(***************************************************************************)
AllIdle == \A p \in Workers : procs[p] = IdleProc

\* The call starts: the queryset of rule 1 is evaluated.
RaceStart(p, u, since, until) ==
    /\ procs[p] = IdleProc
    /\ \E items \in RuleItems(1, u, since, until) :
        procs' = [procs EXCEPT ![p] =
                    [pc |-> "lookup", user |-> u, since |-> since,
                     until |-> until, rule |-> 1, todo |-> items,
                     created |-> <<>>]]
    /\ UNCHANGED <<tickets, commits, activities, worklogs, alerts, effort, reports, extracted>>

\* The SELECT of get_or_create, or of filter().exists().
RaceLookup(p) ==
    /\ procs[p].pc = "lookup"
    /\ procs[p].todo # <<>>
    /\ LET me == procs[p]
           it == Head(me.todo)
           ds == DateOf(me.since)
           de == DateOf(me.until)
       IN  procs' = [procs EXCEPT ![p] =
                IF LookupRaises(alerts, me.user, it, ds, de)
                THEN IdleProc
                ELSE IF Lookup(alerts, me.user, it, ds, de) = {}
                THEN [me EXCEPT !.pc = "create"]
                ELSE [me EXCEPT !.todo = Tail(me.todo)]]
    /\ UNCHANGED <<tickets, commits, activities, worklogs, alerts, effort, reports, extracted>>

\* The INSERT of get_or_create, or of create().
RaceCreate(p) ==
    /\ procs[p].pc = "create"
    /\ LET me == procs[p]
           it == Head(me.todo)
       IN  /\ alerts' = Append(alerts, NewAlert(me.user, it, DateOf(me.since),
                                                DateOf(me.until)))
           /\ procs' = [procs EXCEPT ![p] =
                    [me EXCEPT !.pc = "lookup",
                               !.todo = Tail(me.todo),
                               !.created = Append(me.created, Len(alerts) + 1)]]
    /\ UNCHANGED <<tickets, commits, activities, worklogs, effort, reports, extracted>>

\* The loop of a rule is over: the queryset of the next rule is evaluated.
RaceNextRule(p) ==
    /\ procs[p].pc = "lookup"
    /\ procs[p].todo = <<>>
    /\ procs[p].rule < 4
    /\ LET me == procs[p]
       IN  \E items \in RuleItems(me.rule + 1, me.user, me.since, me.until) :
                procs' = [procs EXCEPT ![p] =
                            [me EXCEPT !.rule = me.rule + 1, !.todo = items]]
    /\ UNCHANGED <<tickets, commits, activities, worklogs, alerts, effort, reports, extracted>>

\* return alerts
RaceReturn(p) ==
    /\ procs[p].pc = "lookup"
    /\ procs[p].todo = <<>>
    /\ procs[p].rule = 4
    /\ procs' = [procs EXCEPT ![p] = IdleProc]
    /\ UNCHANGED <<tickets, commits, activities, worklogs, alerts, effort, reports, extracted>>

RaceUsers == {UserSeq[1]}

\* The windows that hold every stored record; they differ in the end date.
RaceWindows == {w \in Windows : w[1] = 0 /\ w[2] >= MaxTime}

WithinRaceBounds ==
    /\ NumRecords' <= MaxRaceRecords
    /\ Len(alerts') <= MaxRaceAlerts

RaceSyncCommitsStep ==
    /\ AllIdle
    /\ \E u \in RaceUsers, repo \in Repos, message \in IngestMessages, at \in Times :
        \E sha \in ShasFor(u, repo) :
            SyncCommits(u, repo, sha, message, at) /\ WithinRaceBounds

RaceSyncTicketStep ==
    /\ AllIdle
    /\ \E u \in RaceUsers, key \in TicketKeys :
        \E jira_id \in JiraIdsFor(u) :
            SyncTicket(u, jira_id, key, StatusInProgress) /\ WithinRaceBounds

RaceSyncTicketActivitiesStep ==
    /\ AllIdle
    /\ \E u \in RaceUsers, t \in TicketSet, aid \in ActivityIds,
          ty \in ActivityTypes, at \in Times :
        SyncTicketActivities(u, TicketId(t), aid, ty, StatusDone, at) /\ WithinRaceBounds

RaceSyncWorklogsStep ==
    /\ AllIdle
    /\ \E u \in RaceUsers, t \in TicketSet, wid \in WorklogIds, at \in Times :
        \E secs \in OneHourInputs :
            SyncWorklogs(u, TicketId(t), wid, secs, at) /\ WithinRaceBounds

RaceResolveStep ==
    \E u \in RaceUsers, ids \in SUBSET (DOMAIN alerts), now \in {MaxTime} :
        ids # {} /\ ResolveAlerts(u, ids, now)

RaceStartStep ==
    \E p \in Workers, u \in RaceUsers, w \in RaceWindows :
        RaceStart(p, u, w[1], w[2])

RaceLookupStep == \E p \in Workers : RaceLookup(p)

RaceCreateStep == \E p \in Workers : RaceCreate(p) /\ WithinRaceBounds

RaceNextRuleStep == \E p \in Workers : RaceNextRule(p)

RaceReturnStep == \E p \in Workers : RaceReturn(p)

NextRace ==
    \/ RaceSyncCommitsStep
    \/ RaceSyncTicketStep
    \/ RaceSyncTicketActivitiesStep
    \/ RaceSyncWorklogsStep
    \/ RaceStartStep
    \/ RaceLookupStep
    \/ RaceCreateStep
    \/ RaceNextRuleStep
    \/ RaceReturnStep
    \/ RaceResolveStep

SpecRace == Init /\ [][NextRace]_vars

\* C2: there is at most one alert per user, alert type, ticket or commit,
\* and window dates, in every reachable state, two calls at once and
\* resolved alerts included.
C2_AtMostOnePerKey ==
    \A i, j \in DOMAIN alerts :
        (/\ alerts[i].user = alerts[j].user
         /\ alerts[i].alert_type = alerts[j].alert_type
         /\ alerts[i].ticket = alerts[j].ticket
         /\ alerts[i].commit = alerts[j].commit
         /\ alerts[i].detected_for_start = alerts[j].detected_for_start
         /\ alerts[i].detected_for_end = alerts[j].detected_for_end)
            => i = j

(***************************************************************************)
(* The resolve request among detections: two users, each with commits that *)
(* name no ticket, detection runs and resolve requests with any ids, their *)
(* own, another user's or of no alert.                                     *)
(***************************************************************************)
AlertIdInputs == 1..(MaxResolveAlerts + 1)

WithinResolveBounds ==
    /\ NumRecords' <= MaxResolveRecords
    /\ Len(alerts') <= MaxResolveAlerts

ResolveSyncCommitsStep ==
    \E u \in Users, repo \in Repos, at \in Times :
        \E sha \in ShasFor(u, repo) :
            SyncCommits(u, repo, sha, <<"x">>, at) /\ WithinResolveBounds

ResolveDetectStep ==
    \E u \in Users, w \in Windows :
        DetectHygieneIssues(u, w[1], w[2]) /\ WithinResolveBounds

ResolveStep ==
    \E u \in AllUsers, ids \in SUBSET AlertIdInputs, now \in Times :
        ResolveAlerts(u, ids, now)

NextResolve ==
    \/ ResolveSyncCommitsStep
    \/ ResolveDetectStep
    \/ ResolveStep

SpecResolve == Init /\ [][NextResolve]_vars

\* C13: a resolve request marks as resolved exactly the alerts of the user
\* that are listed and were unresolved, returns their number and leaves
\* every other alert as it was, resolved_at included; the same request made
\* again resolves nothing and returns 0.
C13_ResolveExactly ==
    \A u \in AllUsers, ids \in SUBSET AlertIdInputs, now \in Times :
        LET r == ResolveRun(alerts, u, ids, now)
            target == {i \in DOMAIN alerts : /\ alerts[i].user = u
                                             /\ i \in ids
                                             /\ alerts[i].is_resolved = FALSE}
        IN  /\ DOMAIN r.alerts = DOMAIN alerts
            /\ \A i \in target :
                /\ r.alerts[i].is_resolved
                /\ r.alerts[i].resolved_at = now
                /\ [r.alerts[i] EXCEPT !.is_resolved = FALSE,
                                       !.resolved_at = NoTime] = alerts[i]
            /\ \A i \in DOMAIN alerts \ target : r.alerts[i] = alerts[i]
            /\ r.resolved_count = Cardinality(target)
            /\ \A again \in Times :
                LET r2 == ResolveRun(r.alerts, u, ids, again)
                IN  r2.resolved_count = 0 /\ r2.alerts = r.alerts

\* A user has an alert resolved at time 0 and an unresolved one, and the
\* other user has an unresolved alert.
C13_Witness ==
    \E i, j, k \in DOMAIN alerts :
        /\ alerts[i].user = alerts[j].user
        /\ alerts[k].user # alerts[i].user
        /\ alerts[i].is_resolved /\ alerts[i].resolved_at = 0
        /\ ~alerts[j].is_resolved
        /\ ~alerts[k].is_resolved

(***************************************************************************)
(* The batch syncs: GitHubService.sync_all_tracked_repos,                  *)
(* JiraService.sync_all_for_date_range and                                 *)
(* ReportService.sync_data_for_range, each as one call. What GitHub and    *)
(* Jira answer is an input of the call. An answer of GitHub for one        *)
(* repository is the commits it lists, whether the sync of the repository  *)
(* raises and, when it does, how many of the commits were stored before    *)
(* (none when get_commits itself raises). Every update_or_create is        *)
(* committed on its own, so what was stored before an exception stays.     *)
(***************************************************************************)
MaxSyncRecords == 4

\* Repository.objects.filter(user=self.user, is_tracked=True)
TrackedRepos == <<"r1", "r2">>

CommitData(sha, message) == [sha |-> sha, message |-> message, at |-> 0]

GitHubAnswer(items, raises, stored) ==
    [items |-> items, raises |-> raises, stored |-> stored]

\* Nothing to sync; get_commits raises; one commit, stored or raising;
\* two commits, the second one raising.
GitHubAnswers ==
    { GitHubAnswer(<<>>, FALSE, 0),
      GitHubAnswer(<<>>, TRUE, 0),
      GitHubAnswer(<<CommitData("a", <<"x">>)>>, FALSE, 0),
      GitHubAnswer(<<CommitData("a", <<"x", " ", "A", "-", "1">>)>>, FALSE, 0),
      GitHubAnswer(<<CommitData("b", <<"x">>)>>, FALSE, 0),
      GitHubAnswer(<<CommitData("a", <<"x">>)>>, TRUE, 0),
      GitHubAnswer(<<CommitData("a", <<"x">>), CommitData("b", <<"x">>)>>,
                   TRUE, 1) }

\* The update_or_create of each commit of recs, in order.
RECURSIVE UpsertCommits(_, _)
UpsertCommits(cs, recs) ==
    IF recs = <<>> THEN cs
    ELSE UpsertCommits(UpsertCommit(cs, Head(recs)), Tail(recs))

SyncedCommits(cs, recs, raised) ==
    [commits |-> UpsertCommits(cs, recs), raised |-> raised,
     synced_commits |-> recs]

\* The commits a call of sync_commits stores and returns. When the call
\* raises, the caller gets no list.
SyncCommitsRun(cs, tks, u, repo, answer) ==
    SyncedCommits(cs,
        [i \in 1..(IF answer.raises THEN answer.stored ELSE Len(answer.items)) |->
            CommitRecord(u, repo, answer.items[i].sha, answer.items[i].message,
                         answer.items[i].at, tks)],
        answer.raises)

\* One turn of the loop of sync_all_tracked_repos: run is what sync_commits
\* did, and the except clause records an empty list.
RepoSynced(batch, run) ==
    [commits |-> run.commits,
     results |-> Append(batch.results,
                        IF run.raised THEN <<>> ELSE run.synced_commits),
     aborted |-> FALSE]

\* The turn without the try/except: the exception ends the batch.
RepoSyncedOrAbort(batch, run) ==
    IF batch.aborted \/ run.raised
    THEN [commits |-> IF batch.aborted THEN batch.commits ELSE run.commits,
          results |-> Append(batch.results, <<>>),
          aborted |-> TRUE]
    ELSE RepoSynced(batch, run)

RECURSIVE SyncReposAborting(_, _, _, _, _)
SyncReposAborting(batch, tks, u, answers, j) ==
    IF j > Len(TrackedRepos) THEN batch
    ELSE SyncReposAborting(
             RepoSyncedOrAbort(batch,
                 SyncCommitsRun(batch.commits, tks, u, TrackedRepos[j],
                     IF batch.aborted
                     THEN [items |-> <<>>, raises |-> FALSE, stored |-> 0]
                     ELSE answers[TrackedRepos[j]])),
             tks, u, answers, j + 1)

RECURSIVE SyncRepos(_, _, _, _, _)
SyncRepos(batch, tks, u, answers, j) ==
    IF j > Len(TrackedRepos) THEN batch
    ELSE SyncRepos(
             RepoSynced(batch,
                 SyncCommitsRun(batch.commits, tks, u, TrackedRepos[j],
                                answers[TrackedRepos[j]])),
             tks, u, answers, j + 1)

\* sync_all_tracked_repos without the try/except around each repository.
SyncAllTrackedReposAborting(cs, tks, u, answers) ==
    SyncReposAborting([commits |-> cs, results |-> <<>>, aborted |-> FALSE],
                      tks, u, answers, 1)

\* results[j] is the list of the j-th tracked repository.
SyncAllTrackedReposRun(cs, tks, u, answers) ==
    SyncRepos([commits |-> cs, results |-> <<>>, aborted |-> FALSE],
              tks, u, answers, 1)

(***************************************************************************)
(* An answer of Jira: the issues of the search, each with its changelog    *)
(* items and its worklogs, and where the batch raises: "search"            *)
(* (get_issues_for_date_range), "issue" (get_issue_by_key of the first     *)
(* issue, after its sync_ticket) or "no". A user without tracked projects  *)
(* is an answer without issues.                                            *)
(***************************************************************************)
IssueData(status, histories, worklogs_data) ==
    [jira_id |-> "j1", key |-> KeyA1, status |-> status, pos |-> 1,
     histories |-> histories, worklogs |-> worklogs_data]

OneIssue ==
    IssueData(StatusInProgress,
              <<[jira_id |-> "h1", activity_type |-> "status_change",
                 to_status |-> StatusDone, at |-> 0]>>,
              <<[jira_id |-> "w1", time_spent_seconds |-> 3600, at |-> 1]>>)

\* An issue in progress with a worklog, and one that is done with a status
\* change.
ProgressIssue ==
    IssueData(StatusInProgress, <<>>,
              <<[jira_id |-> "w1", time_spent_seconds |-> 3600, at |-> 1]>>)

DoneIssue ==
    IssueData(StatusDone,
              <<[jira_id |-> "h1", activity_type |-> "status_change",
                 to_status |-> StatusDone, at |-> 0]>>,
              <<>>)

JiraAnswers ==
    { [issues |-> <<>>, raises |-> "no"],
      [issues |-> <<OneIssue>>, raises |-> "no"],
      [issues |-> <<OneIssue>>, raises |-> "issue"],
      [issues |-> <<OneIssue>>, raises |-> "search"] }

\* The loops of sync_ticket_activities and sync_worklogs for one issue,
\* with their date filter.
RECURSIVE SyncIssueActivities(_, _, _, _, _, _)
SyncIssueActivities(acts, u, ticket, histories, since, until) ==
    IF histories = <<>> THEN acts
    ELSE SyncIssueActivities(
             IF InWindow(Head(histories).at, since, until)
             THEN UpsertActivity(acts,
                      ActivityRecord(u, ticket, Head(histories).jira_id,
                          Head(histories).activity_type,
                          Head(histories).to_status, Head(histories).at))
             ELSE acts,
             u, ticket, Tail(histories), since, until)

RECURSIVE SyncIssueWorklogs(_, _, _, _, _, _)
SyncIssueWorklogs(wls, u, ticket, worklogs_data, since, until) ==
    IF worklogs_data = <<>> THEN wls
    ELSE SyncIssueWorklogs(
             IF InWindow(Head(worklogs_data).at, since, until)
             THEN UpsertWorklog(wls,
                      WorklogRecord(u, ticket, Head(worklogs_data).jira_id,
                          Head(worklogs_data).time_spent_seconds,
                          Head(worklogs_data).at))
             ELSE wls,
             u, ticket, Tail(worklogs_data), since, until)

Store(tks, cs, acts, wls) ==
    [tickets |-> tks, commits |-> cs, activities |-> acts, worklogs |-> wls]

\* One turn of the loop of sync_all_for_date_range: sync_ticket, then
\* either the exception of get_issue_by_key or the two other syncs.
SyncIssue(st, u, since, until, issue, raises) ==
    [tickets |-> UpsertTicket(st.tickets, u, issue.jira_id, issue.key,
                     issue.status,
                     IF issue.pos <= Len(st.tickets) + 1
                     THEN issue.pos ELSE Len(st.tickets) + 1),
     commits |-> st.commits,
     activities |-> IF raises THEN st.activities
                    ELSE SyncIssueActivities(st.activities, u,
                             <<u, issue.jira_id>>, issue.histories,
                             since, until),
     worklogs |-> IF raises THEN st.worklogs
                  ELSE SyncIssueWorklogs(st.worklogs, u,
                           <<u, issue.jira_id>>, issue.worklogs,
                           since, until)]

RECURSIVE SyncIssues(_, _, _, _, _, _)
SyncIssues(st, u, since, until, issues, raises) ==
    IF issues = <<>> THEN st
    ELSE IF raises THEN SyncIssue(st, u, since, until, Head(issues), TRUE)
    ELSE SyncIssues(SyncIssue(st, u, since, until, Head(issues), FALSE),
                    u, since, until, Tail(issues), FALSE)

SyncAllForDateRangeRun(st, u, since, until, answer) ==
    [store |-> IF answer.raises = "search" THEN st
               ELSE SyncIssues(st, u, since, until, answer.issues,
                               answer.raises = "issue"),
     raised |-> answer.raises # "no"]

\* call = [github_connected, jira_connected, github_raises, answers, jira]:
\* the two flags of the user, whether the GitHub block raises outside the
\* per-repository handler, and the answers of the two services.
GitHubSynced(st, batch) ==
    [store |-> [st EXCEPT !.commits = batch.commits],
     github_repos |-> batch.results]

\* if self.user.github_connected: try ... except Exception
GitHubBlock(st, u, call) ==
    IF call.github_connected /\ ~call.github_raises
    THEN GitHubSynced(st, SyncAllTrackedReposRun(st.commits, st.tickets, u,
                                                 call.answers))
    ELSE [store |-> st, github_repos |-> <<>>]

JiraSynced(github, run) ==
    [store |-> run.store, github_repos |-> github.github_repos,
     jira_ran |-> TRUE, jira_raised |-> run.raised]

\* if self.user.jira_connected: try ... except Exception
JiraBlock(github, u, since, until, call) ==
    IF call.jira_connected
    THEN JiraSynced(github, SyncAllForDateRangeRun(github.store, u, since,
                                                   until, call.jira))
    ELSE [store |-> github.store, github_repos |-> github.github_repos,
          jira_ran |-> FALSE, jira_raised |-> FALSE]

SyncDataForRangeRun(st, u, since, until, call) ==
    JiraBlock(GitHubBlock(st, u, call), u, since, until, call)

\* The GitHub block can raise only when it runs.
SyncCalls ==
    {call \in [github_connected : BOOLEAN, jira_connected : BOOLEAN,
               github_raises : BOOLEAN,
               answers : [{TrackedRepos[j] : j \in DOMAIN TrackedRepos}
                              -> GitHubAnswers],
               jira : JiraAnswers] :
        call.github_raises => call.github_connected}

SyncDataForRange(u, since, until, call) ==
    \E r \in {SyncDataForRangeRun(
                  Store(tickets, commits, activities, worklogs),
                  u, since, until, call)} :
        /\ tickets' = r.store.tickets
        /\ commits' = r.store.commits
        /\ activities' = r.store.activities
        /\ worklogs' = r.store.worklogs
        /\ UNCHANGED <<alerts, procs, effort, reports, extracted>>

SyncWindows == {<<0, 0>>, <<0, 1>>}

SyncDataForRangeStep ==
    \E u \in {UserSeq[1]}, w \in SyncWindows, call \in SyncCalls :
        SyncDataForRange(u, w[1], w[2], call) /\ NumRecords' <= MaxSyncRecords

NextSync == SyncDataForRangeStep

SpecSync == Init /\ [][NextSync]_vars

\* C20: in sync_all_tracked_repos a repository whose sync raises does not
\* end the batch: every other tracked repository is synced and reported with
\* its commits, the failing one is reported with an empty list, and the
\* commits stored before, in earlier calls or earlier in the failing sync,
\* stay stored; in sync_data_for_range a failure of the GitHub sync does not
\* keep the Jira sync from running.
C20_FailureIsolated ==
    \A u \in {UserSeq[1]}, w \in SyncWindows, call \in SyncCalls :
        LET gh == SyncAllTrackedReposRun(commits, tickets, u, call.answers)
            r == SyncDataForRangeRun(
                     Store(tickets, commits, activities, worklogs),
                     u, w[1], w[2], call)
            named(c) == \E j \in DOMAIN TrackedRepos :
                            \E i \in DOMAIN call.answers[TrackedRepos[j]].items :
                                CommitId(c) = <<u, TrackedRepos[j],
                                    call.answers[TrackedRepos[j]].items[i].sha>>
        IN  /\ \A j \in DOMAIN TrackedRepos :
                LET repo == TrackedRepos[j]
                    answer == call.answers[repo]
                    ids == {CommitId(d) : d \in gh.commits}
                IN  /\ answer.raises =>
                        /\ gh.results[j] = <<>>
                        /\ \A i \in 1..answer.stored :
                               <<u, repo, answer.items[i].sha>> \in ids
                    /\ ~answer.raises =>
                        /\ Len(gh.results[j]) = Len(answer.items)
                        /\ \A i \in DOMAIN answer.items :
                            /\ gh.results[j][i].sha = answer.items[i].sha
                            /\ gh.results[j][i].repository = repo
                            /\ gh.results[j][i] \in gh.commits
            /\ \A c \in commits :
                /\ \E d \in gh.commits : CommitId(d) = CommitId(c)
                /\ ~named(c) => c \in gh.commits
            /\ (call.jira_connected /\ call.jira.raises = "no") =>
                   \A i \in DOMAIN call.jira.issues :
                       \E k \in DOMAIN r.store.tickets :
                           /\ r.store.tickets[k].user = u
                           /\ r.store.tickets[k].jira_id = call.jira.issues[i].jira_id
                           /\ r.store.tickets[k].key = call.jira.issues[i].key
            /\ r.jira_ran = call.jira_connected

\* The first repository holds the first commit of an answer whose second
\* commit raised, the second repository was synced, the issue of Jira is
\* stored, and a call in which GitHub fails as a whole and one in which the
\* first repository fails still bring something new.
C20_Witness ==
    /\ \E c \in commits : c.repository = TrackedRepos[1] /\ c.sha = "a"
    /\ ~\E c \in commits : c.repository = TrackedRepos[1] /\ c.sha = "b"
    /\ \E c \in commits : c.repository = TrackedRepos[2]
    /\ Len(tickets) = 1
    /\ \E call \in SyncCalls :
        /\ call.answers[TrackedRepos[1]].raises
        /\ call.answers[TrackedRepos[1]].stored = 1
        /\ ~call.answers[TrackedRepos[2]].raises
        /\ LET gh == SyncAllTrackedReposRun(commits, tickets, UserSeq[1],
                                            call.answers)
           IN  /\ gh.results[1] = <<>>
               /\ Len(gh.results[2]) = 1
               /\ gh.commits # commits
    /\ \E call \in SyncCalls :
        /\ call.github_raises /\ call.jira_connected
        /\ SyncDataForRangeRun(Store(tickets, commits, activities, worklogs),
               UserSeq[1], 0, 1, call).store.activities # activities

(***************************************************************************)
(* AIService.generate_effort_analysis                                      *)
(***************************************************************************)
\* str.lower(), character by character.
LowerChar(c) ==
    IF \E i \in DOMAIN UpperAlphabet : UpperAlphabet[i] = c
    THEN LowerAlphabet[CHOOSE i \in DOMAIN UpperAlphabet : UpperAlphabet[i] = c]
    ELSE c

Lower(str) == [i \in DOMAIN str |-> LowerChar(str[i])]

DoneStatuses == {<<"d", "o", "n", "e">>, <<"c", "l", "o", "s", "e", "d">>, <<"r", "e", "s", "o", "l", "v", "e", "d">>}

SecondsPerHour == 3600
FastWinMaxCommits == 3
FastWinMaxHours == 2
HighEffortCommits == 5
HighEffortHours == 8

\* time_logged_hours = time_logged_seconds / 3600 is a float; for the
\* integers h the code compares it with, hours <= h iff seconds <= 3600 h.
HoursLeq(seconds, h) == seconds <= h * SecondsPerHour

HoursGt(seconds, h) == seconds > h * SecondsPerHour

\* The body of the first branch: if commits_count <= 3 and hours <= 2.
FastWinBranch(commits_count, seconds) ==
    IF commits_count <= FastWinMaxCommits /\ HoursLeq(seconds, FastWinMaxHours)
    THEN "fast_win"
    ELSE "normal"

\* StalledBranch without the test of status_changes.
StalledBranchAnyChanges(status_changes, current_status) ==
    IF current_status \notin DoneStatuses THEN "stalled" ELSE "normal"

\* The body of the last branch: if status_changes == 0 and current_status
\* not in ['done', 'closed', 'resolved'].
StalledBranch(status_changes, current_status) ==
    IF status_changes = 0 /\ current_status \notin DoneStatuses
    THEN "stalled"
    ELSE "normal"

\* The classification of the returned analysis: one if / elif chain.
GenerateEffortAnalysis(ticket_data) ==
    LET commits_count == ticket_data.commits_count
        seconds == ticket_data.time_logged_seconds
        status_changes == ticket_data.status_changes_count
        current_status == Lower(ticket_data.status)
    IN  IF current_status \in DoneStatuses
        THEN FastWinBranch(commits_count, seconds)
        ELSE IF commits_count > HighEffortCommits /\ status_changes = 0
        THEN "high_effort_low_output"
        ELSE IF HoursGt(seconds, HighEffortHours) /\ status_changes = 0
        THEN "high_effort_low_output"
        ELSE IF commits_count > 0 \/ HoursGt(seconds, 0)
        THEN StalledBranch(status_changes, current_status)
        ELSE "normal"

\* "Done", "done", "CLOSED", "Resolved", "In Progress", "To Do"
StatusInputs ==
    { <<"D", "o", "n", "e">>,
      <<"d", "o", "n", "e">>,
      <<"C", "L", "O", "S", "E", "D">>,
      <<"R", "e", "s", "o", "l", "v", "e", "d">>,
      <<"I", "n", " ", "P", "r", "o", "g", "r", "e", "s", "s">>,
      <<"T", "o", " ", "D", "o">> }

\* Logged seconds on both sides of the two thresholds.
SecondsInputs == {0, 1, 3600, 7200, 7201, 28800, 28801}

TicketDataInputs ==
    [status : StatusInputs,
     commits_count : 0..MaxCommitsCount,
     time_logged_seconds : SecondsInputs,
     status_changes_count : 0..MaxStatusChanges]

InitEffort ==
    /\ tickets = <<>>
    /\ commits = {}
    /\ activities = {}
    /\ worklogs = {}
    /\ alerts = <<>>
    /\ procs = [w \in Workers |-> IdleProc]
    /\ effort \in {[ticket_data |-> td, analysis |-> NoAnalysis] :
                      td \in TicketDataInputs}
    /\ reports = {}
    /\ extracted = NoExtraction

AnalyzeEffort ==
    /\ effort.analysis = NoAnalysis
    /\ effort' = [effort EXCEPT
                     !.analysis = GenerateEffortAnalysis(effort.ticket_data)]
    /\ UNCHANGED <<tickets, commits, activities, worklogs, alerts, procs, reports, extracted>>

NextEffort == AnalyzeEffort

SpecEffort == InitEffort /\ [][NextEffort]_vars

(***************************************************************************)
(* GitHubService.extract_ticket_keys on its own: the message is a line of  *)
(* tokens separated by blanks, the result is list(set(matches)).           *)
(***************************************************************************)
MaxTokens == 3

\* "A-1", "B-2", "AB-12", "A-1B-2", "x", "a-1", "A-", "A1"
MessageTokens ==
    { <<"A", "-", "1">>,
      <<"B", "-", "2">>,
      <<"A", "B", "-", "1", "2">>,
      <<"A", "-", "1", "B", "-", "2">>,
      <<"x">>,
      <<"a", "-", "1">>,
      <<"A", "-">>,
      <<"A", "1">> }

TokenLines == UNION {[1..n -> MessageTokens] : n \in 1..MaxTokens}

\* " ".join(tokens)
RECURSIVE JoinTokens(_)
JoinTokens(tokens) ==
    IF Len(tokens) = 1 THEN tokens[1]
    ELSE tokens[1] \o <<" ">> \o JoinTokens(Tail(tokens))

\* The lists that enumerate the set S once each: list(set(...)) in the
\* order of the set, which the hash of the strings decides.
ListsOf(S) ==
    {l \in [1..Cardinality(S) -> S] : \A k \in S : \E i \in DOMAIN l : l[i] = k}

\* extract_ticket_keys returning the matches as re.findall lists them.
ExtractTicketKeysListNoSet(commit_message) == {FindAll(commit_message, 1)}

\* The lists extract_ticket_keys can return.
ExtractTicketKeysList(commit_message) ==
    ListsOf(ExtractTicketKeys(commit_message))

InitExtract ==
    /\ tickets = <<>>
    /\ commits = {}
    /\ activities = {}
    /\ worklogs = {}
    /\ alerts = <<>>
    /\ procs = [w \in Workers |-> IdleProc]
    /\ effort = NoEffort
    /\ reports = {}
    /\ extracted \in {[commit_message |-> JoinTokens(line), keys |-> <<>>,
                          returned |-> FALSE] :
                         line \in TokenLines}

ExtractKeys ==
    /\ ~extracted.returned
    /\ \E keys \in ExtractTicketKeysList(extracted.commit_message) :
        extracted' = [extracted EXCEPT !.keys = keys, !.returned = TRUE]
    /\ UNCHANGED <<tickets, commits, activities, worklogs, alerts, procs,
                   effort, reports>>

NextExtract == ExtractKeys

SpecExtract == InitExtract /\ [][NextExtract]_vars

(***************************************************************************)
(* ReportService._calculate_stats and _format_time.                        *)
(***************************************************************************)
HasSubstring(str, word) ==
    \E i \in 1..(Len(str) - Len(word) + 1) :
        SubSeq(str, i, i + Len(word) - 1) = word

\* to_status__iregex = r'(done|closed|resolved|complete)'; NULL never matches.
CompletedWords ==
    DoneStatuses \cup {<<"c", "o", "m", "p", "l", "e", "t", "e">>}

IsCompletedStatus(to_status) ==
    /\ to_status # NoStatus
    /\ \E word \in CompletedWords : HasSubstring(Lower(to_status), word)

RECURSIVE SumTimeSpent(_)
SumTimeSpent(wls) ==
    IF wls = {} THEN 0
    ELSE LET w == CHOOSE x \in wls : TRUE
         IN  w.time_spent_seconds + SumTimeSpent(wls \ {w})

\* _format_time: "0h", "<h>h <m>m", "<h>h" or "<m>m", as its tokens.
FormatTime(seconds) ==
    LET hours == seconds \div SecondsPerHour
        minutes == (seconds % SecondsPerHour) \div 60
    IN  IF seconds = 0 THEN <<0, "h">>
        ELSE IF hours > 0 /\ minutes > 0 THEN <<hours, "h", minutes, "m">>
        ELSE IF hours > 0 THEN <<hours, "h">>
        ELSE <<minutes, "m">>

\* TouchedTicketIds without the worklogs.
TouchedTicketIdsNoWorklogs(cs, acts, wls, u, since, until) ==
    {c.ticket : c \in {d \in cs : /\ d.user = u
                                  /\ InWindow(d.committed_at, since, until)
                                  /\ d.ticket # NoTicket}}
    \cup {a.ticket : a \in {b \in acts : /\ b.user = u
                                         /\ InWindow(b.activity_at, since, until)}}

\* ticket_ids: the set filled from the commits with a ticket, the
\* activities and the worklogs of the window.
TouchedTicketIds(cs, acts, wls, u, since, until) ==
    {c.ticket : c \in {d \in cs : /\ d.user = u
                                  /\ InWindow(d.committed_at, since, until)
                                  /\ d.ticket # NoTicket}}
    \cup {a.ticket : a \in {b \in acts : /\ b.user = u
                                         /\ InWindow(b.activity_at, since, until)}}
    \cup {w.ticket : w \in {x \in wls : /\ x.user = u
                                        /\ InWindow(x.started_at, since, until)}}

\* exclude(ticket__commits__committed_at__gte=since,
\*         ticket__commits__committed_at__lte=until) over the multi-valued
\* relation ticket.commits: each condition gets a subquery of its own, so
\* the two bounds need not be met by the same commit.
ExcludedByCommits(cs, ticket, since, until) ==
    /\ \E c \in cs : c.ticket = ticket /\ c.committed_at >= since
    /\ \E c \in cs : c.ticket = ticket /\ c.committed_at <= until

CalculateStats(cs, acts, wls, u, since, until) ==
    LET in_commits == {c \in cs : c.user = u /\ InWindow(c.committed_at, since, until)}
        status_changes == {a \in acts : /\ a.user = u
                                        /\ a.activity_type = "status_change"
                                        /\ InWindow(a.activity_at, since, until)}
        total_time == SumTimeSpent({w \in wls :
                          w.user = u /\ InWindow(w.started_at, since, until)})
    IN  [total_commits |-> Cardinality(in_commits),
         unlinked_commits |-> Cardinality({c \in in_commits : c.is_unlinked}),
         total_tickets |->
             Cardinality(TouchedTicketIds(cs, acts, wls, u, since, until)),
         tickets_completed |->
             Cardinality({a.ticket : a \in
                 {b \in status_changes : IsCompletedStatus(b.to_status)}}),
         total_time_logged_seconds |-> total_time,
         total_time_logged_display |-> FormatTime(total_time),
         non_code_activities |->
             Cardinality({a \in status_changes :
                 ~ExcludedByCommits(cs, a.ticket, since, until)})]

(***************************************************************************)
(* The records _calculate_stats reads, over three instants, so that a      *)
(* ticket can have a commit before a window and another after it.          *)
(***************************************************************************)
MaxStatsRecords == 4
MaxStatsTime == 2

StatsTimes == 0..MaxStatsTime
StatsWindows == {w \in StatsTimes \X StatsTimes : w[1] <= w[2]}

\* "x", "x A-1"
StatsMessages == { <<"x">>, <<"x", " ", "A", "-", "1">> }

WithinStatsBounds == NumRecords' <= MaxStatsRecords

StatsSyncTicketStep ==
    SyncTicket(UserSeq[1], JiraIdSeq[1], KeyA1, StatusInProgress)
        /\ WithinStatsBounds

StatsSyncCommitsStep ==
    \E repo \in Repos, message \in StatsMessages, at \in StatsTimes :
        \E sha \in ShasFor(UserSeq[1], repo) :
            SyncCommits(UserSeq[1], repo, sha, message, at) /\ WithinStatsBounds

StatsSyncTicketActivitiesStep ==
    \E t \in TicketSet, aid \in ActivityIds, ty \in ActivityTypes,
       at \in StatsTimes :
        SyncTicketActivities(UserSeq[1], TicketId(t), aid, ty, StatusDone, at)
            /\ WithinStatsBounds

NextStats ==
    \/ StatsSyncTicketStep
    \/ StatsSyncCommitsStep
    \/ StatsSyncTicketActivitiesStep

SpecStats == Init /\ [][NextStats]_vars

(***************************************************************************)
(* ReportService.generate_report, as one call on a record store st and an  *)
(* alert table as. What the two connectors answer (call), whether the      *)
(* summarizer answers or raises (outcome) and the clock (now) are inputs.  *)
(***************************************************************************)
MaxReportAlerts == 2
MaxReports == 1

\* detect_hygiene_issues on the store st.
DetectRunsOn(st, as, u, since, until) ==
    {EmitAll(as, i1 \o i2 \o i3 \o i4, u, DateOf(since), DateOf(until), <<>>) :
        i1 \in Rule1Items(st.commits, u, since, until),
        i2 \in Rule2Items(st.commits, st.activities, u, since, until),
        i3 \in Rule3Items(st.commits, st.worklogs, u, since, until),
        i4 \in Rule4Items(st.commits, st.activities, u, since, until)}

\* alerts[:20]
SummaryListCap == 20

\* The positions in S from the last created to the first: Meta.ordering of
\* HygieneAlert is ['-created_at'].
RECURSIVE NewestFirst(_)
NewestFirst(S) ==
    IF S = {} THEN <<>>
    ELSE <<CHOOSE i \in S : \A j \in S : i >= j>>
         \o NewestFirst(S \ {CHOOSE i \in S : \A j \in S : i >= j})

FirstItems(seq, n) == SubSeq(seq, 1, IF Len(seq) < n THEN Len(seq) ELSE n)

\* values('alert_type').annotate(count=Count('id')): a count for every
\* alert_type among the listed alerts.
CountByType(as, listed) ==
    [ty \in {as[i].alert_type : i \in listed} |->
        Cardinality({i \in listed : as[i].alert_type = ty})]

\* The alerts of the user whose recorded window lies within the dates of
\* [since, until], resolved ones too.
ListedAnyState(as, u, since, until) ==
    {i \in DOMAIN as :
        /\ as[i].user = u
        /\ as[i].detected_for_start >= DateOf(since)
        /\ as[i].detected_for_end <= DateOf(until)}

\* The unresolved alerts of the user whose recorded window lies within the
\* dates of [since, until].
Listed(as, u, since, until) ==
    {i \in DOMAIN as :
        /\ as[i].user = u
        /\ as[i].detected_for_start >= DateOf(since)
        /\ as[i].detected_for_end <= DateOf(until)
        /\ as[i].is_resolved = FALSE}

SummaryOf(as, listed) ==
    [total_alerts |-> Cardinality(listed),
     by_type |-> CountByType(as, listed),
     alerts |-> FirstItems(NewestFirst(listed), SummaryListCap)]

\* get_hygiene_summary without is_resolved=False.
HygieneSummaryAnyState(as, u, since, until) ==
    SummaryOf(as, ListedAnyState(as, u, since, until))

\* get_hygiene_summary; an entry of the list is the position of its alert.
HygieneSummary(as, u, since, until) ==
    SummaryOf(as, Listed(as, u, since, until))

\* analyze_ticket_effort: the ticket_data handed to the classifier.
TicketData(st, u, ticket, since, until) ==
    LET t == CHOOSE x \in {st.tickets[i] : i \in DOMAIN st.tickets} :
                 TicketId(x) = ticket
    IN  [key |-> t.key,
         status |-> t.status,
         commits_count |-> CommitsCount(st.commits, u, ticket, since, until),
         status_changes_count |->
             StatusChangesCount(st.activities, u, ticket, since, until),
         time_logged_seconds |->
             SumTimeSpent({w \in st.worklogs :
                 /\ w.user = u
                 /\ w.ticket = ticket
                 /\ InWindow(w.started_at, since, until)})]

\* The keys of the dict `analyses` of get_effort_analysis_summary.
EffortBuckets == {"fast_wins", "high_effort_low_output", "stalled", "normal"}

\* analysis['analysis']['classification'] of a ticket.
ClassificationOf(st, u, ticket, since, until) ==
    GenerateEffortAnalysis(TicketData(st, u, ticket, since, until))

\* analyses: the tickets appended under each key. ticket_ids is a set, so a
\* ticket is appended once.
EffortDetails(st, u, ticket_ids, since, until) ==
    [b \in EffortBuckets |->
        {ticket \in ticket_ids :
            ClassificationOf(st, u, ticket, since, until) = b}]

EffortCounts(details) ==
    [b \in EffortBuckets |-> Cardinality(details[b])]

EffortAnalysisOf(st, u, ticket_ids, since, until, details) ==
    [raised |-> \E ticket \in ticket_ids :
                    ClassificationOf(st, u, ticket, since, until)
                        \notin EffortBuckets,
     summary |-> EffortCounts(details),
     details |-> details]

\* get_effort_analysis_summary: analyses[classification].append(analysis)
\* raises KeyError for a classification that is no key of analyses.
EffortAnalysisOn(st, u, ticket_ids, since, until) ==
    EffortAnalysisOf(st, u, ticket_ids, since, until,
                     EffortDetails(st, u, ticket_ids, since, until))

EffortAnalysisSummary(st, u, since, until) ==
    EffortAnalysisOn(st, u,
        TouchedTicketIds(st.commits, st.activities, st.worklogs,
                         u, since, until),
        since, until)

\* What the summarizer does with the prompt.
SummarizerOutcomes == {"text", "raises"}

\* response.choices[0].message.content.strip()
SummarizerText == <<"summary">>

\* _generate_fallback_summary, as the parts of its sentence.
GenerateFallbackSummary(stats, date_range) ==
    LET parts ==
            (IF stats.total_tickets > 0
             THEN << <<"you worked on", stats.total_tickets, "ticket(s)">> >>
             ELSE <<>>)
         \o (IF stats.total_commits > 0
             THEN << <<"made", stats.total_commits, "commit(s)">> >>
             ELSE <<>>)
         \o (IF stats.tickets_completed > 0
             THEN << <<"completed", stats.tickets_completed, "ticket(s)">> >>
             ELSE <<>>)
         \o (IF stats.total_time_logged_display # <<>>
             THEN << <<"logged", stats.total_time_logged_display>> >>
             ELSE <<>>)
    IN  << <<"Between", date_range.start, "and", date_range.end>> >>
        \o (IF parts # <<>> THEN parts
            ELSE << <<"no significant activity was recorded">> >>)

\* generate_work_summary without the fallback.
GenerateWorkSummaryNoFallback(report_data, outcome) == SummarizerText

GenerateWorkSummary(report_data, outcome) ==
    IF outcome = "raises"
    THEN GenerateFallbackSummary(report_data.stats, report_data.date_range)
    ELSE SummarizerText

\* _generate_markdown_report: the sections of the report.
GenerateMarkdownReport(report_data, now) ==
    [title |-> report_data.date_range,
     summary |-> report_data.summary,
     statistics |-> report_data.stats,
     hygiene_alerts |-> report_data.hygiene.total_alerts,
     generated_on |-> now]

NoReport == <<>>

\* The rows of _get_tickets_data, each under its 'id', and of
\* _get_unlinked_commits.
TicketsData(st, u, since, until) ==
    [ticket \in TouchedTicketIds(st.commits, st.activities, st.worklogs,
                                 u, since, until) |->
        TicketData(st, u, ticket, since, until)]

UnlinkedCommitsData(st, u, since, until) ==
    {c.sha : c \in UnlinkedCommits(st.commits, u, since, until)}

\* report_data before the summary: lines 96 to 106.
ReportSections(st, as, u, since, until, effort_analysis) ==
    [date_range |-> [start |-> DateOf(since), end |-> DateOf(until)],
     stats |-> CalculateStats(st.commits, st.activities, st.worklogs,
                              u, since, until),
     tickets |-> TicketsData(st, u, since, until),
     unlinked_commits |-> UnlinkedCommitsData(st, u, since, until),
     hygiene |-> HygieneSummary(as, u, since, until),
     effort_analysis |-> effort_analysis.summary]

\* report_data['summary'] = ...
WithSummary(report_data, summary) ==
    [date_range |-> report_data.date_range,
     stats |-> report_data.stats,
     tickets |-> report_data.tickets,
     unlinked_commits |-> report_data.unlinked_commits,
     hygiene |-> report_data.hygiene,
     effort_analysis |-> report_data.effort_analysis,
     summary |-> summary]

\* report_data['markdown'] = ...
WithMarkdown(report_data, now) ==
    [date_range |-> report_data.date_range,
     stats |-> report_data.stats,
     tickets |-> report_data.tickets,
     unlinked_commits |-> report_data.unlinked_commits,
     hygiene |-> report_data.hygiene,
     effort_analysis |-> report_data.effort_analysis,
     summary |-> report_data.summary,
     markdown |-> GenerateMarkdownReport(report_data, now)]

Summarized(report_data, outcome) ==
    WithSummary(report_data, GenerateWorkSummary(report_data, outcome))

\* What generate_report does after the detector: the exception of
\* get_effort_analysis_summary, or the document.
ReportAfterDetect(st, d, u, since, until, effort_analysis, outcome, now) ==
    IF d.raised \/ effort_analysis.raised
    THEN [store |-> st, alerts |-> d.alerts, raised |-> TRUE,
          report_data |-> NoReport]
    ELSE [store |-> st, alerts |-> d.alerts, raised |-> FALSE,
          report_data |->
              WithMarkdown(
                  Summarized(ReportSections(st, d.alerts, u, since, until,
                                            effort_analysis),
                             outcome),
                  now)]

\* generate_report on the store the sync left.
ReportRunsOn(st, as, u, since, until, outcome, now) ==
    {ReportAfterDetect(st, d, u, since, until,
                       EffortAnalysisSummary(st, u, since, until),
                       outcome, now) :
        d \in DetectRunsOn(st, as, u, since, until)}

\* generate_report that syncs whatever sync_first says.
GenerateReportRunsAlwaysSync(st, as, u, since, until, sync_first, call, outcome, now) ==
    ReportRunsOn(SyncDataForRangeRun(st, u, since, until, call).store,
                 as, u, since, until, outcome, now)

\* Every outcome of one call: the store and the alert table it leaves,
\* whether it raised, and the document it returns. The detector has
\* stored its alerts when get_effort_analysis_summary raises.
GenerateReportRuns(st, as, u, since, until, sync_first, call, outcome, now) ==
    ReportRunsOn(IF sync_first
                 THEN SyncDataForRangeRun(st, u, since, until, call).store
                 ELSE st,
                 as, u, since, until, outcome, now)

\* GenerateReportView.post, CurrentWeekReportView.get: the document goes to
\* the caller and is not stored.
GenerateReport(u, since, until, sync_first, call, outcome, now) ==
    \E r \in GenerateReportRuns(Store(tickets, commits, activities, worklogs),
                 alerts, u, since, until, sync_first, call, outcome, now) :
        /\ tickets' = r.store.tickets
        /\ commits' = r.store.commits
        /\ activities' = r.store.activities
        /\ worklogs' = r.store.worklogs
        /\ alerts' = r.alerts
        /\ UNCHANGED <<procs, effort, reports, extracted>>

(***************************************************************************)
(* ReportService.create_weekly_report by a worker p: generate_report with  *)
(* sync_first=True, then WeeklyReport.objects.update_or_create, which is   *)
(* a select of the row of (user, start_date, end_date) and, when there is  *)
(* none, an insert; an insert that meets the unique constraint falls back  *)
(* to the row that is there and overwrites it.                             *)
(***************************************************************************)
ReportKey(r) == <<r.user, r.start_date, r.end_date>>

\* report_data is a JSONField; every value in the document is a JSON
\* number, string, list or object, so the row gives back what was stored.
WeeklyReportRow(u, start_date, end_date, report_data) ==
    [user |-> u, start_date |-> start_date, end_date |-> end_date,
     total_tickets |-> report_data.stats.total_tickets,
     total_commits |-> report_data.stats.total_commits,
     tickets_completed |-> report_data.stats.tickets_completed,
     total_time_logged_seconds |-> report_data.stats.total_time_logged_seconds,
     unlinked_commits |-> report_data.stats.unlinked_commits,
     non_code_activities |-> report_data.stats.non_code_activities,
     summary_text |-> report_data.summary,
     markdown_report |-> report_data.markdown,
     report_data |-> report_data]

\* An insert that takes no notice of the rows that are there.
InsertReportNoConstraint(rps, row) == rps \cup {row}

\* get_or_create without the update: a row that is there stays.
KeepExistingReport(rps, row) ==
    IF \E r \in rps : ReportKey(r) = ReportKey(row) THEN rps
    ELSE rps \cup {row}

\* The row of the key is replaced, or the row is added.
UpsertReport(rps, row) ==
    {r \in rps : ReportKey(r) # ReportKey(row)} \cup {row}

\* Every outcome of one call of create_weekly_report that no other call
\* interleaves with: an exception of generate_report leaves before the
\* update_or_create.
CreateWeeklyReportRuns(st, as, rps, u, since, until, call, outcome, now) ==
    {[store |-> r.store, alerts |-> r.alerts, raised |-> r.raised,
      report_data |-> r.report_data,
      reports |-> IF r.raised THEN rps
                  ELSE UpsertReport(rps,
                           WeeklyReportRow(u, DateOf(since), DateOf(until),
                                           r.report_data))] :
        r \in GenerateReportRuns(st, as, u, since, until, TRUE, call,
                                 outcome, now)}

CreateWeeklyReport(u, since, until, call, outcome, now) ==
    \E r \in CreateWeeklyReportRuns(
                 Store(tickets, commits, activities, worklogs), alerts,
                 reports, u, since, until, call, outcome, now) :
        /\ tickets' = r.store.tickets
        /\ commits' = r.store.commits
        /\ activities' = r.store.activities
        /\ worklogs' = r.store.worklogs
        /\ alerts' = r.alerts
        /\ reports' = r.reports
        /\ UNCHANGED <<procs, effort, extracted>>

(***************************************************************************)
(* create_weekly_report by a worker p among other workers, in three steps: *)
(* generate_report, the select of update_or_create and its insert.         *)
(***************************************************************************)
WeeklyGenerate(p, u, since, until, call, outcome, now) ==
    /\ procs[p].pc = "idle"
    /\ \E r \in GenerateReportRuns(Store(tickets, commits, activities, worklogs),
                    alerts, u, since, until, TRUE, call, outcome, now) :
        /\ tickets' = r.store.tickets
        /\ commits' = r.store.commits
        /\ activities' = r.store.activities
        /\ worklogs' = r.store.worklogs
        /\ alerts' = r.alerts
        /\ procs' = IF r.raised THEN procs
                    ELSE [procs EXCEPT ![p] =
                             [pc |-> "select",
                              row |-> WeeklyReportRow(u, DateOf(since),
                                          DateOf(until), r.report_data)]]
        /\ UNCHANGED <<effort, reports, extracted>>

\* get_or_create: the select. A row that is found is locked and updated.
WeeklySelect(p) ==
    /\ procs[p].pc = "select"
    /\ IF \E r \in reports : ReportKey(r) = ReportKey(procs[p].row)
       THEN /\ reports' = UpsertReport(reports, procs[p].row)
            /\ procs' = [procs EXCEPT ![p] = IdleProc]
       ELSE /\ reports' = reports
            /\ procs' = [procs EXCEPT ![p].pc = "create"]
    /\ UNCHANGED <<tickets, commits, activities, worklogs, alerts, effort, extracted>>

\* get_or_create: the insert, and after an IntegrityError the update.
WeeklyCreate(p) ==
    /\ procs[p].pc = "create"
    /\ reports' = UpsertReport(reports, procs[p].row)
    /\ procs' = [procs EXCEPT ![p] = IdleProc]
    /\ UNCHANGED <<tickets, commits, activities, worklogs, alerts, effort, extracted>>

\* GetLastWeekReport without filter(user=self.user).
GetLastWeekReportAnyUser(rps, u) ==
    IF rps = {} THEN {<<>>}
    ELSE {r \in rps : \A other \in rps : r.start_date >= other.start_date}

\* WeeklyReport.objects.filter(user=self.user).first() with
\* ordering = ['-start_date']: nothing orders two rows of one start_date.
GetLastWeekReport(rps, u) ==
    LET mine == {r \in rps : r.user = u}
    IN  IF mine = {} THEN {NoReport}
        ELSE {r \in mine : \A other \in mine : r.start_date >= other.start_date}

(***************************************************************************)
(* Report requests of two users, one at a time: generate_report with and   *)
(* without sync, create_weekly_report, detection runs and resolve          *)
(* requests. The records enter through the sync of a report call.          *)
(***************************************************************************)
MaxReportRecords == 2

ReportWindows == {<<0, 1>>, <<2, 2>>}

ReportClock == {MaxTime}

NoAnswers ==
    [repo \in {TrackedRepos[j] : j \in DOMAIN TrackedRepos} |->
        GitHubAnswer(<<>>, FALSE, 0)]

ReportCall(github_connected, jira_connected, answer, jira) ==
    [github_connected |-> github_connected, jira_connected |-> jira_connected,
     github_raises |-> FALSE,
     answers |-> [NoAnswers EXCEPT ![TrackedRepos[1]] = answer],
     jira |-> jira]

NoSync == ReportCall(FALSE, FALSE, GitHubAnswer(<<>>, FALSE, 0),
                     [issues |-> <<>>, raises |-> "no"])

\* Neither connector; GitHub with a commit "x" or "x A-1"; Jira with an
\* issue in progress or done.
ReportCalls ==
    { NoSync,
      ReportCall(TRUE, FALSE,
          GitHubAnswer(<<CommitData("a", <<"x">>)>>, FALSE, 0),
          [issues |-> <<>>, raises |-> "no"]),
      ReportCall(TRUE, FALSE,
          GitHubAnswer(<<CommitData("a", <<"x", " ", "A", "-", "1">>)>>,
                       FALSE, 0),
          [issues |-> <<>>, raises |-> "no"]),
      ReportCall(FALSE, TRUE, GitHubAnswer(<<>>, FALSE, 0),
          [issues |-> <<ProgressIssue>>, raises |-> "no"]),
      ReportCall(FALSE, TRUE, GitHubAnswer(<<>>, FALSE, 0),
          [issues |-> <<DoneIssue>>, raises |-> "no"]) }

WithinReportBounds ==
    /\ NumRecords' <= MaxReportRecords
    /\ Len(alerts') <= MaxReportAlerts
    /\ Cardinality(reports') <= MaxReports

ReportGenerateStep ==
    \E u \in Users, w \in ReportWindows, sync_first \in BOOLEAN,
       outcome \in SummarizerOutcomes, now \in ReportClock :
        \E call \in IF sync_first THEN ReportCalls ELSE {NoSync} :
            /\ GenerateReport(u, w[1], w[2], sync_first, call, outcome, now)
            /\ WithinReportBounds

ReportCreateWeeklyStep ==
    \E u \in Users, w \in ReportWindows, call \in ReportCalls,
       outcome \in SummarizerOutcomes, now \in ReportClock :
        /\ CreateWeeklyReport(u, w[1], w[2], call, outcome, now)
        /\ WithinReportBounds

ReportDetectStep ==
    \E u \in Users, w \in ReportWindows :
        DetectHygieneIssues(u, w[1], w[2]) /\ WithinReportBounds

ReportResolveStep ==
    \E u \in AllUsers, ids \in SUBSET (1..MaxReportAlerts), now \in ReportClock :
        ResolveAlerts(u, ids, now)

NextReport ==
    \/ ReportGenerateStep
    \/ ReportCreateWeeklyStep
    \/ ReportDetectStep
    \/ ReportResolveStep

SpecReport == Init /\ [][NextReport]_vars

(***************************************************************************)
(* Two workers creating weekly reports at once.                            *)
(***************************************************************************)
MaxWeeklyRecords == 2
MaxWeeklyAlerts == 2
MaxWeeklyReports == 2

WeeklyWindows == {<<0, 1>>, <<2, 2>>}

\* Neither connector, or GitHub with a commit "x".
WeeklyCalls ==
    { NoSync,
      ReportCall(TRUE, FALSE,
          GitHubAnswer(<<CommitData("a", <<"x">>)>>, FALSE, 0),
          [issues |-> <<>>, raises |-> "no"]) }

WithinWeeklyBounds ==
    /\ NumRecords' <= MaxWeeklyRecords
    /\ Len(alerts') <= MaxWeeklyAlerts
    /\ Cardinality(reports') <= MaxWeeklyReports

WeeklyGenerateStep ==
    \E p \in Workers, u \in Users, w \in WeeklyWindows, call \in WeeklyCalls,
       outcome \in SummarizerOutcomes, now \in ReportClock :
        /\ WeeklyGenerate(p, u, w[1], w[2], call, outcome, now)
        /\ WithinWeeklyBounds

WeeklySelectStep ==
    \E p \in Workers : WeeklySelect(p) /\ WithinWeeklyBounds

WeeklyCreateStep ==
    \E p \in Workers : WeeklyCreate(p) /\ WithinWeeklyBounds

NextWeekly ==
    \/ WeeklyGenerateStep
    \/ WeeklySelectStep
    \/ WeeklyCreateStep

SpecWeekly == Init /\ [][NextWeekly]_vars

(***************************************************************************)
(* Reports over a store with more unlinked commits than the summary lists. *)
(* sync_commits stores a response of several commits, each with its own    *)
(* committed_at; a work log adds an alert of a second type.                *)
(***************************************************************************)
MaxSummaryCommits == 22

SummaryBatches == {10, 11}

SummaryShaSeq ==
    <<"s01", "s02", "s03", "s04", "s05", "s06", "s07", "s08", "s09", "s10",
      "s11", "s12", "s13", "s14", "s15", "s16", "s17", "s18", "s19", "s20",
      "s21", "s22">>

SummaryWindow == <<0, MaxSummaryCommits + 1>>

\* sync_commits with a response of `batch` commits not stored so far.
SummarySyncCommits(u, repo, batch) ==
    /\ Cardinality(commits) + batch <= MaxSummaryCommits
    /\ commits' = UpsertCommits(commits,
           [i \in 1..batch |->
               CommitRecord(u, repo, SummaryShaSeq[Cardinality(commits) + i],
                            <<"x">>, Cardinality(commits) + i, tickets)])
    /\ UNCHANGED <<tickets, activities, worklogs, alerts, procs, effort,
                   reports, extracted>>

SummarySyncCommitsStep ==
    \E batch \in SummaryBatches :
        SummarySyncCommits(UserSeq[1], TrackedRepos[1], batch)

SummarySyncTicketStep ==
    /\ tickets = <<>>
    /\ SyncTicket(UserSeq[1], JiraIdSeq[1], KeyA1, StatusInProgress)

SummarySyncWorklogsStep ==
    \E t \in TicketSet, wid \in WorklogIds, secs \in OneHourInputs :
        /\ worklogs = {}
        /\ SyncWorklogs(UserSeq[1], TicketId(t), wid, secs, 0)

SummaryGenerateStep ==
    \E outcome \in SummarizerOutcomes, now \in ReportClock :
        GenerateReport(UserSeq[1], SummaryWindow[1], SummaryWindow[2], FALSE,
                       NoSync, outcome, now)

\* The resolve request for the oldest or the newest alert.
SummaryResolveStep ==
    \E ids \in {{1}, {Len(alerts)}}, now \in ReportClock :
        ResolveAlerts(UserSeq[1], ids, now)

NextSummary ==
    \/ SummarySyncCommitsStep
    \/ SummarySyncTicketStep
    \/ SummarySyncWorklogsStep
    \/ SummaryGenerateStep
    \/ SummaryResolveStep

SpecSummary == Init /\ [][NextSummary]_vars

(***************************************************************************)
(* Properties of the effort classifier, under SpecEffort.                  *)
(***************************************************************************)
Analysed == effort.analysis # NoAnalysis

IsDone(td) == Lower(td.status) \in DoneStatuses

\* Rule 1 of the decision policy.
FastWinRule(td) ==
    /\ IsDone(td)
    /\ td.commits_count <= 3
    /\ td.time_logged_seconds <= 7200

\* Rule 2 of the decision policy.
HighEffortRule(td) ==
    /\ td.status_changes_count = 0
    /\ (td.commits_count > 5 \/ td.time_logged_seconds > 28800)

\* Rule 3 of the decision policy.
StalledRule(td) ==
    /\ (td.commits_count > 0 \/ td.time_logged_seconds > 0)
    /\ td.status_changes_count = 0
    /\ ~IsDone(td)

TopDownClass(td) ==
    IF FastWinRule(td) THEN "fast_win"
    ELSE IF HighEffortRule(td) THEN "high_effort_low_output"
    ELSE IF StalledRule(td) THEN "stalled"
    ELSE "normal"

\* C5: the classification is the one the four rules give when evaluated
\* top-down, first match wins.
C5_TopDownFirstMatch ==
    Analysed => effort.analysis = TopDownClass(effort.ticket_data)

\* C6: when the fast_win rule does not match, no status change and more
\* than 5 commits or more than 8 logged hours give high_effort_low_output,
\* whatever the current status.
C6_HighEffortWhateverStatus ==
    (/\ Analysed
     /\ ~FastWinRule(effort.ticket_data)
     /\ HighEffortRule(effort.ticket_data))
        => effort.analysis = "high_effort_low_output"

\* C7: when neither the fast_win rule nor the high_effort_low_output rule
\* matches, the classification is stalled exactly when there is some work
\* (a commit or logged time), no status change and a status that is not
\* done, closed or resolved.
C7_StalledIffRule ==
    (/\ Analysed
     /\ ~FastWinRule(effort.ticket_data)
     /\ ~HighEffortRule(effort.ticket_data))
        => (effort.analysis = "stalled" <=> StalledRule(effort.ticket_data))

\* Scenario B: no commit, two logged hours, no status change, "To Do".
C7_Witness ==
    /\ effort.analysis = "stalled"
    /\ effort.ticket_data = [status |-> <<"T", "o", " ", "D", "o">>,
                             commits_count |-> 0,
                             time_logged_seconds |-> 7200,
                             status_changes_count |-> 0]

(***************************************************************************)
(* Properties of the linker and of the detector, under Spec. A property    *)
(* of a call of detect_hygiene_issues is stated over every call that can   *)
(* be made in a reachable state and every outcome the call can have.       *)
(***************************************************************************)
AllTickets == {TicketId(t) : t \in TicketSet}

Created(r) == {r.alerts[r.created[i]] : i \in DOMAIN r.created}

\* The alerts of a table for a user, an alert type and the window's dates.
AlertsOf(as, u, alert_type, since, until) ==
    {as[i] : i \in {j \in DOMAIN as :
        /\ as[j].user = u
        /\ as[j].alert_type = alert_type
        /\ as[j].detected_for_start = DateOf(since)
        /\ as[j].detected_for_end = DateOf(until)}}

CommitsInWindow(u, ticket, since, until) ==
    {c \in commits : /\ c.user = u
                     /\ c.ticket = ticket
                     /\ since <= c.committed_at /\ c.committed_at <= until}

StatusChangesInWindow(u, ticket, since, until) ==
    {a \in activities : /\ a.user = u
                        /\ a.ticket = ticket
                        /\ a.activity_type = "status_change"
                        /\ since <= a.activity_at /\ a.activity_at <= until}

WorklogsInWindow(u, ticket, since, until) ==
    {w \in worklogs : /\ w.user = u
                      /\ w.ticket = ticket
                      /\ since <= w.started_at /\ w.started_at <= until}

HasViolation(u, since, until) ==
    \E rule \in 1..4 : \E q \in RuleItems(rule, u, since, until) : q # <<>>

\* C1: a second run for the same user and window, the data unchanged,
\* creates no alert: the alert table is the one the first run left and the
\* second call returns the empty list.
C1_SecondRunCreatesNothing ==
    \A u \in AllUsers, w \in Windows :
        \A r1 \in DetectRuns(alerts, u, w[1], w[2]) :
            /\ ~r1.raised
            /\ \A r2 \in DetectRuns(r1.alerts, u, w[1], w[2]) :
                /\ ~r2.raised
                /\ r2.alerts = r1.alerts
                /\ Len(r2.alerts) = Len(r1.alerts)
                /\ r2.created = <<>>

\* A run has stored a time_no_code alert for a window in which the data
\* still violates a rule, and the next run for that window creates nothing.
C1_Witness ==
    \E u \in AllUsers, w \in Windows :
        /\ HasViolation(u, w[1], w[2])
        /\ \E i \in DOMAIN alerts :
            /\ alerts[i].user = u
            /\ alerts[i].alert_type = "time_no_code"
            /\ alerts[i].detected_for_start = DateOf(w[1])
            /\ alerts[i].detected_for_end = DateOf(w[2])
        /\ \E r \in DetectRuns(alerts, u, w[1], w[2]) :
            ~r.raised /\ r.created = <<>>

\* C3: every stored commit has is_unlinked exactly when it has no ticket.
C3_UnlinkedIffNoTicket ==
    \A c \in commits : c.is_unlinked <=> (c.ticket = NoTicket)

\* C4: a commit whose message names ticket keys, ingested while the user
\* has no ticket of any of these keys, is unlinked, and a detection over a
\* window that contains its committed_at leaves a commit_no_ticket alert
\* keyed by the commit and the window.
C4_DanglingKeyAlerted ==
    \A c \in commits :
        (c.extracted_ticket_keys # {} /\ c.ticket = NoTicket) =>
            /\ c.is_unlinked
            /\ \A w \in Windows :
                (w[1] <= c.committed_at /\ c.committed_at <= w[2]) =>
                    \A r \in DetectRuns(alerts, c.user, w[1], w[2]) :
                        \E a \in AlertsOf(r.alerts, c.user, "commit_no_ticket",
                                          w[1], w[2]) :
                            a.commit = CommitId(c)

\* C8: after a run, every unlinked commit of the user in the window has a
\* commit_no_ticket alert of severity warning keyed by the commit and the
\* window, and the run has created no commit_no_ticket alert for any other
\* commit.
C8_UnlinkedCommitsAlerted ==
    \A u \in AllUsers, w \in Windows :
        \A r \in DetectRuns(alerts, u, w[1], w[2]) :
            LET target == {CommitId(c) : c \in
                            {d \in commits :
                                /\ d.user = u
                                /\ d.is_unlinked
                                /\ w[1] <= d.committed_at
                                /\ d.committed_at <= w[2]}}
            IN  /\ ~r.raised
                /\ \A id \in target :
                    \E a \in AlertsOf(r.alerts, u, "commit_no_ticket", w[1], w[2]) :
                        a.commit = id /\ a.severity = "warning"
                /\ \A a \in Created(r) :
                    a.alert_type = "commit_no_ticket" =>
                        /\ a.commit \in target
                        /\ a.user = u
                        /\ a.detected_for_start = DateOf(w[1])
                        /\ a.detected_for_end = DateOf(w[2])

\* A run has alerted one unlinked commit of a user who has another commit
\* that no alert is about.
C8_Witness ==
    \E i \in DOMAIN alerts :
        /\ alerts[i].alert_type = "commit_no_ticket"
        /\ alerts[i].severity = "warning"
        /\ \E c, d \in commits :
            /\ c.user = alerts[i].user /\ d.user = alerts[i].user
            /\ CommitId(c) = alerts[i].commit
            /\ c.is_unlinked
            /\ \E w \in Windows :
                /\ w[1] <= c.committed_at /\ c.committed_at <= w[2]
                /\ DateOf(w[1]) = alerts[i].detected_for_start
                /\ DateOf(w[2]) = alerts[i].detected_for_end
            /\ CommitId(d) # alerts[i].commit
            /\ \A j \in DOMAIN alerts : alerts[j].commit # CommitId(d)

\* C9: after a run, the tickets with a status change in the window and no
\* commit linked to them in the window each have a status_no_commit alert
\* of severity info keyed by the ticket and the window, and the run has
\* created a status_no_commit alert for no other ticket.
C9_StatusNoCommitExactly ==
    \A u \in AllUsers, w \in Windows :
        \A r \in DetectRuns(alerts, u, w[1], w[2]) :
            LET target == {T \in AllTickets :
                            /\ StatusChangesInWindow(u, T, w[1], w[2]) # {}
                            /\ CommitsInWindow(u, T, w[1], w[2]) = {}}
            IN  /\ ~r.raised
                /\ \A T \in target :
                    \E a \in AlertsOf(r.alerts, u, "status_no_commit", w[1], w[2]) :
                        a.ticket = T /\ a.severity = "info"
                /\ \A a \in Created(r) :
                    a.alert_type = "status_no_commit" =>
                        /\ a.ticket \in target
                        /\ a.user = u
                        /\ a.detected_for_start = DateOf(w[1])
                        /\ a.detected_for_end = DateOf(w[2])

\* A run has stored a status_no_commit alert for a ticket that has a status
\* change in the run's window and a commit linked to it outside the window.
C9_Witness ==
    \E i \in DOMAIN alerts, w \in Windows :
        /\ alerts[i].alert_type = "status_no_commit"
        /\ alerts[i].severity = "info"
        /\ alerts[i].detected_for_start = DateOf(w[1])
        /\ alerts[i].detected_for_end = DateOf(w[2])
        /\ StatusChangesInWindow(alerts[i].user, alerts[i].ticket, w[1], w[2]) # {}
        /\ CommitsInWindow(alerts[i].user, alerts[i].ticket, w[1], w[2]) = {}
        /\ \E c \in commits : c.ticket = alerts[i].ticket

\* C10: after a run, every ticket with a worklog in the window and no
\* commit in the window has a time_no_code alert of severity info for the
\* window, whether or not rule 2 applies to it: a ticket that also has a
\* status change in the window has a status_no_commit alert for the window
\* as well.
C10_TimeNoCodeIndependent ==
    \A u \in AllUsers, w \in Windows :
        \A r \in DetectRuns(alerts, u, w[1], w[2]) :
            /\ ~r.raised
            /\ \A T \in AllTickets :
                (/\ WorklogsInWindow(u, T, w[1], w[2]) # {}
                 /\ CommitsInWindow(u, T, w[1], w[2]) = {}) =>
                    /\ \E a \in AlertsOf(r.alerts, u, "time_no_code", w[1], w[2]) :
                        a.ticket = T /\ a.severity = "info"
                    /\ StatusChangesInWindow(u, T, w[1], w[2]) # {} =>
                        \E a \in AlertsOf(r.alerts, u, "status_no_commit", w[1], w[2]) :
                            a.ticket = T /\ a.severity = "info"

\* One run has stored both alerts for a ticket with a status change and a
\* worklog in its window.
C10_Witness ==
    \E i, j \in DOMAIN alerts, w \in Windows :
        /\ alerts[i].alert_type = "status_no_commit"
        /\ alerts[j].alert_type = "time_no_code"
        /\ alerts[j].severity = "info"
        /\ alerts[i].user = alerts[j].user
        /\ alerts[i].ticket = alerts[j].ticket
        /\ alerts[i].detected_for_start = DateOf(w[1])
        /\ alerts[j].detected_for_start = DateOf(w[1])
        /\ alerts[i].detected_for_end = DateOf(w[2])
        /\ alerts[j].detected_for_end = DateOf(w[2])
        /\ StatusChangesInWindow(alerts[i].user, alerts[i].ticket, w[1], w[2]) # {}
        /\ WorklogsInWindow(alerts[i].user, alerts[i].ticket, w[1], w[2]) # {}

\* C11: after a run, the tickets with a linked commit in the window and no
\* status change in the window each have a stalled_ticket alert of severity
\* warning keyed by the ticket and the window, and the run has created a
\* stalled_ticket alert for no other ticket.
C11_StalledTicketExactly ==
    \A u \in AllUsers, w \in Windows :
        \A r \in DetectRuns(alerts, u, w[1], w[2]) :
            LET target == {T \in AllTickets :
                            /\ CommitsInWindow(u, T, w[1], w[2]) # {}
                            /\ StatusChangesInWindow(u, T, w[1], w[2]) = {}}
            IN  /\ ~r.raised
                /\ \A T \in target :
                    \E a \in AlertsOf(r.alerts, u, "stalled_ticket", w[1], w[2]) :
                        a.ticket = T /\ a.severity = "warning"
                /\ \A a \in Created(r) :
                    a.alert_type = "stalled_ticket" =>
                        /\ a.ticket \in target
                        /\ a.user = u
                        /\ a.detected_for_start = DateOf(w[1])
                        /\ a.detected_for_end = DateOf(w[2])

\* A run has stored a stalled_ticket alert for a ticket that has a linked
\* commit in the run's window and an activity in it that is no status change.
C11_Witness ==
    \E i \in DOMAIN alerts, w \in Windows :
        /\ alerts[i].alert_type = "stalled_ticket"
        /\ alerts[i].severity = "warning"
        /\ alerts[i].detected_for_start = DateOf(w[1])
        /\ alerts[i].detected_for_end = DateOf(w[2])
        /\ CommitsInWindow(alerts[i].user, alerts[i].ticket, w[1], w[2]) # {}
        /\ StatusChangesInWindow(alerts[i].user, alerts[i].ticket, w[1], w[2]) = {}
        /\ \E a \in activities :
            /\ a.ticket = alerts[i].ticket
            /\ w[1] <= a.activity_at /\ a.activity_at <= w[2]

ActivitiesInWindow(u, ticket, since, until) ==
    {a \in activities : /\ a.user = u
                        /\ a.ticket = ticket
                        /\ since <= a.activity_at /\ a.activity_at <= until}

TouchedKinds(u, ticket, since, until) ==
    {k \in {"commit", "activity", "worklog"} :
        \/ k = "commit" /\ CommitsInWindow(u, ticket, since, until) # {}
        \/ k = "activity" /\ ActivitiesInWindow(u, ticket, since, until) # {}
        \/ k = "worklog" /\ WorklogsInWindow(u, ticket, since, until) # {}}

\* C17: in the stats of a window, total_commits is the number of the user's
\* commits in the window, unlinked_commits the number of those with
\* is_unlinked, and total_tickets the number of tickets that a linked
\* commit, an activity of any type or a worklog of the window refers to,
\* each ticket counted once.
C17_StatsCounts ==
    \A u \in AllUsers, w \in Windows :
        LET stats == CalculateStats(commits, activities, worklogs, u, w[1], w[2])
            in_window == {c \in commits : /\ c.user = u
                                          /\ w[1] <= c.committed_at
                                          /\ c.committed_at <= w[2]}
        IN  /\ stats.total_commits = Cardinality(in_window)
            /\ stats.unlinked_commits =
                   Cardinality({c \in in_window : c.is_unlinked})
            /\ stats.total_tickets =
                   Cardinality({T \in AllTickets :
                       TouchedKinds(u, T, w[1], w[2]) # {}})

\* A window with one ticket, touched by a worklog and by an activity that is
\* no status change.
C17_Witness ==
    \E u \in AllUsers, w \in Windows :
        LET stats == CalculateStats(commits, activities, worklogs, u, w[1], w[2])
        IN  /\ stats.total_tickets = 1
            /\ \E T \in AllTickets :
                /\ {"activity", "worklog"} \subseteq TouchedKinds(u, T, w[1], w[2])
                /\ \A a \in ActivitiesInWindow(u, T, w[1], w[2]) :
                    a.activity_type # "status_change"

(***************************************************************************)
(* Properties of the report requests, under SpecReport.                    *)
(***************************************************************************)
\* The fields of an alert that no request changes after its creation.
AlertIdentity(a) ==
    [a EXCEPT !.is_resolved = FALSE, !.resolved_at = NoTime]

\* C12: in every step of detect_hygiene_issues, generate_report,
\* create_weekly_report and the resolve request, every alert stays in the
\* table as the alert it was, a resolved alert stays resolved, an alert is
\* created unresolved, and an alert becomes resolved only in a step of the
\* resolve request.
C12_AlertLifecycle ==
    [][/\ Len(alerts') >= Len(alerts)
       /\ \A i \in DOMAIN alerts :
            /\ AlertIdentity(alerts'[i]) = AlertIdentity(alerts[i])
            /\ alerts[i].is_resolved => alerts'[i].is_resolved
            /\ (~alerts[i].is_resolved /\ alerts'[i].is_resolved) =>
                   /\ ReportResolveStep
                   /\ Len(alerts') = Len(alerts)
       /\ \A i \in DOMAIN alerts' \ DOMAIN alerts : ~alerts'[i].is_resolved
      ]_vars

\* A resolved alert, an unresolved alert created after it, and a stored
\* weekly report.
C12_Witness ==
    /\ reports # {}
    /\ \E i, j \in DOMAIN alerts :
        /\ i < j
        /\ alerts[i].is_resolved
        /\ ~alerts[j].is_resolved

\* The sentence of the fallback for the stats and the dates.
FallbackSentence(stats, date_range) ==
    << <<"Between", date_range.start, "and", date_range.end>> >>
    \o (IF stats.total_tickets > 0
        THEN << <<"you worked on", stats.total_tickets, "ticket(s)">> >>
        ELSE <<>>)
    \o (IF stats.total_commits > 0
        THEN << <<"made", stats.total_commits, "commit(s)">> >>
        ELSE <<>>)
    \o (IF stats.tickets_completed > 0
        THEN << <<"completed", stats.tickets_completed, "ticket(s)">> >>
        ELSE <<>>)
    \o << <<"logged", stats.total_time_logged_display>> >>

ReportFields ==
    {"date_range", "stats", "tickets", "unlinked_commits", "hygiene",
     "effort_analysis", "summary", "markdown"}

\* C18: when the summarizer raises, the summary of the report is the
\* templated sentence made of the stats and the date range of that report,
\* generate_report raises only if it also raises when the summarizer
\* answers, its document has every section and differs from that one in
\* the summary only, and reports with the same stats and date range get
\* the same sentence.
C18_FallbackSummary ==
    \A u \in AllUsers, w \in ReportWindows, sync_first \in BOOLEAN,
       call \in ReportCalls, now \in ReportClock :
        LET st == Store(tickets, commits, activities, worklogs)
            failed == GenerateReportRuns(st, alerts, u, w[1], w[2],
                          sync_first, call, "raises", now)
            answered == GenerateReportRuns(st, alerts, u, w[1], w[2],
                            sync_first, call, "text", now)
        IN  /\ \A r \in failed :
                /\ \E a \in answered :
                    /\ a.raised = r.raised
                    /\ a.alerts = r.alerts
                    /\ a.store = r.store
                    /\ ~r.raised =>
                        /\ [a.report_data EXCEPT !.summary = <<>>,
                                                 !.markdown.summary = <<>>]
                           = [r.report_data EXCEPT !.summary = <<>>,
                                                   !.markdown.summary = <<>>]
                        /\ a.report_data.summary = SummarizerText
                /\ ~r.raised =>
                    /\ DOMAIN r.report_data = ReportFields
                    /\ r.report_data.summary =
                           FallbackSentence(r.report_data.stats,
                                            r.report_data.date_range)
                    /\ r.report_data.markdown.summary = r.report_data.summary
            /\ \A w2 \in ReportWindows, u2 \in AllUsers :
                \A r \in failed :
                    \A r2 \in GenerateReportRuns(st, alerts, u2, w2[1], w2[2],
                                  sync_first, call, "raises", now) :
                        (/\ ~r.raised /\ ~r2.raised
                         /\ r.report_data.stats = r2.report_data.stats
                         /\ r.report_data.date_range = r2.report_data.date_range)
                        => r.report_data.summary = r2.report_data.summary

\* A stored weekly report of a window with a commit, whose summary is the
\* fallback sentence.
C18_Witness ==
    \E r \in reports :
        /\ r.total_commits > 0
        /\ r.summary_text # SummarizerText
        /\ r.summary_text = FallbackSentence(r.report_data.stats,
                                             r.report_data.date_range)

\* C19: generate_report with sync_first = false, whatever the connectors
\* would answer, leaves every ticket, commit, activity and worklog as it
\* was and changes the alert table only by appending unresolved alerts of
\* the user for the dates of the requested window; a create_weekly_report
\* whose generate_report raises leaves every weekly report as it was.
C19_ReportFrame ==
    \A u \in AllUsers, w \in ReportWindows, call \in ReportCalls,
       outcome \in SummarizerOutcomes, now \in ReportClock :
        LET st == Store(tickets, commits, activities, worklogs)
        IN  /\ \A r \in GenerateReportRuns(st, alerts, u, w[1], w[2], FALSE,
                            call, outcome, now) :
                /\ r.store = st
                /\ Len(r.alerts) >= Len(alerts)
                /\ \A i \in DOMAIN alerts : r.alerts[i] = alerts[i]
                /\ \A i \in DOMAIN r.alerts \ DOMAIN alerts :
                    /\ r.alerts[i].user = u
                    /\ r.alerts[i].detected_for_start = DateOf(w[1])
                    /\ r.alerts[i].detected_for_end = DateOf(w[2])
                    /\ ~r.alerts[i].is_resolved
            /\ \A r \in CreateWeeklyReportRuns(st, alerts, reports, u,
                            w[1], w[2], call, outcome, now) :
                r.raised => r.reports = reports

\* A weekly report is stored, a generate_report without sync would add an
\* alert, and a create_weekly_report for the window of the stored report
\* would raise after adding an alert.
C19_Witness ==
    \E u \in AllUsers, w \in ReportWindows, call \in ReportCalls :
        LET st == Store(tickets, commits, activities, worklogs)
        IN  /\ \E rp \in reports :
                ReportKey(rp) = <<u, DateOf(w[1]), DateOf(w[2])>>
            /\ \E r \in CreateWeeklyReportRuns(st, alerts, reports, u,
                            w[1], w[2], call, "text", MaxTime) :
                r.raised /\ Len(r.alerts) > Len(alerts)
            /\ \E w2 \in ReportWindows :
                \E r \in GenerateReportRuns(st, alerts, u, w2[1], w2[2],
                             FALSE, call, "text", MaxTime) :
                    Len(r.alerts) > Len(alerts)

(***************************************************************************)
(* Properties of the weekly reports, under SpecWeekly.                     *)
(***************************************************************************)
\* C14: after every step of workers creating weekly reports at once, no two
\* stored reports have the same user, start_date and end_date; a step that
\* changes the stored reports is the write of one worker, after which the
\* report of its (user, start_date, end_date) is the one it generated, and
\* every report of another window or user is as it was.
C14_OnePerWindow ==
    [][/\ \A r1, r2 \in reports' :
            ReportKey(r1) = ReportKey(r2) => r1 = r2
       /\ reports' # reports =>
            \E p \in Workers :
                /\ procs[p].pc \in {"select", "create"}
                /\ procs'[p].pc = "idle"
                /\ procs[p].row \in reports'
                /\ \A r \in reports :
                       ReportKey(r) # ReportKey(procs[p].row) => r \in reports'
                /\ \A r \in reports' : r = procs[p].row \/ r \in reports
      ]_vars

\* A worker found no report of its window and is about to insert one while
\* another worker has stored a different report of that window, and a
\* report of another window is stored.
C14_Witness ==
    \E p \in Workers :
        /\ procs[p].pc = "create"
        /\ \E r \in reports :
            /\ ReportKey(r) = ReportKey(procs[p].row)
            /\ r.report_data.stats # procs[p].row.report_data.stats
        /\ \E r \in reports : ReportKey(r) # ReportKey(procs[p].row)

\* C15: get_last_week_report returns nothing iff the user has no stored
\* weekly report; otherwise it returns a stored report of that user that no
\* other report of the user exceeds in start_date.
C15_LatestOfUser ==
    \A u \in AllUsers :
        LET latest == GetLastWeekReport(reports, u)
        IN  /\ latest # {}
            /\ (NoReport \in latest) <=> ~\E r \in reports : r.user = u
            /\ \A x \in latest :
                x # NoReport =>
                    /\ x \in reports
                    /\ x.user = u
                    /\ \A r \in reports :
                           r.user = u => r.start_date <= x.start_date

\* A user has a report and another user has one of a later start_date.
C15_Witness ==
    \E r1, r2 \in reports :
        /\ r1.user # r2.user
        /\ r1.start_date < r2.start_date
        /\ r1.report_data.stats # r2.report_data.stats

\* C16, as stated: after a create_weekly_report, get_last_week_report for
\* the same user returns a document whose stats are the ones just computed,
\* whatever the window and the reports stored before.
C16_RoundTripAnyWindow ==
    \A u \in AllUsers, w \in WeeklyWindows, call \in WeeklyCalls,
       outcome \in SummarizerOutcomes, now \in ReportClock :
        \A r \in CreateWeeklyReportRuns(
                     Store(tickets, commits, activities, worklogs), alerts,
                     reports, u, w[1], w[2], call, outcome, now) :
            ~r.raised =>
                \A x \in GetLastWeekReport(r.reports, u) :
                    /\ x # NoReport
                    /\ x.report_data.stats = r.report_data.stats

\* C16, amended: the round trip holds when every other stored report of
\* the user starts before the new window.
C16_RoundTripLatestWindow ==
    \A u \in AllUsers, w \in WeeklyWindows, call \in WeeklyCalls,
       outcome \in SummarizerOutcomes, now \in ReportClock :
        \A r \in CreateWeeklyReportRuns(
                     Store(tickets, commits, activities, worklogs), alerts,
                     reports, u, w[1], w[2], call, outcome, now) :
            (/\ ~r.raised
             /\ \A other \in reports :
                    (/\ other.user = u
                     /\ ReportKey(other) # <<u, DateOf(w[1]), DateOf(w[2])>>)
                    => other.start_date < DateOf(w[1]))
            => \A x \in GetLastWeekReport(r.reports, u) :
                    /\ x # NoReport
                    /\ x.start_date = DateOf(w[1])
                    /\ x.end_date = DateOf(w[2])
                    /\ x.report_data = r.report_data
                    /\ x.report_data.stats = r.report_data.stats
                    /\ x.total_commits = r.report_data.stats.total_commits

\* The user has a report of the first window with no commit counted and
\* one of another user is stored; a create_weekly_report of the user for
\* the first window now counts a commit, and one for the later window
\* makes that one the latest.
C16_Witness ==
    \E u \in AllUsers :
        /\ \E old \in reports :
            /\ old.user = u /\ old.start_date = 0
            /\ old.total_commits = 0
            /\ \E r \in CreateWeeklyReportRuns(
                            Store(tickets, commits, activities, worklogs),
                            alerts, reports, u, 0, 1, NoSync, "text", MaxTime) :
                   ~r.raised /\ r.report_data.stats.total_commits > 0
        /\ \A other \in reports : other.user = u => other.start_date = 0
        /\ \E other \in reports : other.user # u

(***************************************************************************)
(* Properties of extract_ticket_keys, under SpecExtract.                   *)
(***************************************************************************)
\* str is one or more upper-case letters, a hyphen, one or more digits.
IsTicketKey(str) ==
    \E h \in 2..(Len(str) - 1) :
        /\ str[h] = "-"
        /\ \A k \in 1..(h - 1) : IsUpper(str[k])
        /\ \A k \in (h + 1)..Len(str) : IsDigit(str[k])

\* The occurrences of the pattern in s: the substrings that are keys and
\* extend neither to a letter on the left nor to a digit on the right.
KeyOccurrences(s) ==
    {SubSeq(s, i, j) : <<i, j>> \in
        {ij \in (1..Len(s)) \X (1..Len(s)) :
            /\ ij[1] <= ij[2]
            /\ IsTicketKey(SubSeq(s, ij[1], ij[2]))
            /\ (ij[1] = 1 \/ ~IsUpper(s[ij[1] - 1]))
            /\ (ij[2] = Len(s) \/ ~IsDigit(s[ij[2] + 1]))}}

TokensOf(line) == {line[i] : i \in DOMAIN line}

\* C21: the list extract_ticket_keys returns for a message names every
\* occurrence of the pattern in it and nothing else, names no key twice,
\* and every message made of the same tokens, repeated or in another
\* order, gives the same keys.
C21_KeysAsSet ==
    extracted.returned =>
        LET keys == extracted.keys
            returned == {keys[i] : i \in DOMAIN keys}
        IN  /\ returned = KeyOccurrences(extracted.commit_message)
            /\ \A i, j \in DOMAIN keys : keys[i] = keys[j] => i = j
            /\ \A line \in TokenLines :
                JoinTokens(line) = extracted.commit_message =>
                    \A other \in TokenLines :
                        TokensOf(other) = TokensOf(line) =>
                            \A l \in ExtractTicketKeysList(JoinTokens(other)) :
                                {l[i] : i \in DOMAIN l} = returned

\* The keys of "A-1B-2 A-1 AB-12", where A-1 occurs twice, are returned.
C21_Witness ==
    /\ extracted.commit_message =
           <<"A", "-", "1", "B", "-", "2", " ", "A", "-", "1", " ",
             "A", "B", "-", "1", "2">>
    /\ extracted.returned
    /\ Len(extracted.keys) = 3

(***************************************************************************)
(* Properties of the linker at ingest, under Spec.                         *)
(***************************************************************************)
\* The tickets of u whose key is among ticket_keys.
TicketsNamed(tks, u, ticket_keys) ==
    {TicketId(tks[i]) : i \in {j \in DOMAIN tks :
        tks[j].user = u /\ tks[j].key \in ticket_keys}}

\* C22: a commit ingested now is bound to a ticket iff exactly one ticket
\* of the user has a key among the keys of its message, the bound ticket is
\* that one, and a message naming two or more tickets of the user, or none,
\* leaves the commit without a ticket.
C22_BoundIffExactlyOne ==
    \A u \in AllUsers, repo \in Repos, message \in IngestMessages, at \in Times :
        LET rec == CommitRecord(u, repo, ShaSeq[1], message, at, tickets)
            named == TicketsNamed(tickets, u, rec.extracted_ticket_keys)
        IN  /\ rec.ticket # NoTicket <=> Cardinality(named) = 1
            /\ rec.ticket # NoTicket => rec.ticket \in named

\* C26: no user has two stored tickets with the same key, so at most one
\* ticket of the user is named by a key.
C26_KeyUniquePerUser ==
    /\ \A i, j \in DOMAIN tickets :
        (tickets[i].user = tickets[j].user /\ tickets[i].key = tickets[j].key)
            => i = j
    /\ \A u \in AllUsers, key \in TicketKeys :
        Cardinality(TicketsNamed(tickets, u, {key})) <= 1

(***************************************************************************)
(* Properties of the stats, under SpecStats.                               *)
(***************************************************************************)
\* C23: non_code_activities is the number of status changes of the window
\* whose ticket has no commit with since <= committed_at <= until; a commit
\* before the window and another after it exclude nothing.
C23_NonCodeActivities ==
    \A u \in AllUsers, w \in StatsWindows :
        CalculateStats(commits, activities, worklogs, u, w[1], w[2])
            .non_code_activities
        = Cardinality({a \in activities :
              /\ a.user = u
              /\ a.activity_type = "status_change"
              /\ w[1] <= a.activity_at /\ a.activity_at <= w[2]
              /\ ~\E c \in commits :
                    /\ c.ticket = a.ticket
                    /\ w[1] <= c.committed_at /\ c.committed_at <= w[2]})

(***************************************************************************)
(* Properties of the hygiene summary of a report, under SpecSummary.       *)
(***************************************************************************)
RECURSIVE SumCounts(_, _)
SumCounts(f, keys) ==
    IF keys = {} THEN 0
    ELSE LET k == CHOOSE x \in keys : TRUE
         IN  f[k] + SumCounts(f, keys \ {k})

\* C24: the hygiene summary of a generated report is read from the alert
\* table the detector of the same call left: every alert the call created
\* is counted in total_alerts, total_alerts is the number of unresolved
\* alerts of the user for the window and the sum of the by_type counts, and
\* the alerts list holds the min(20, total_alerts) most recently created of
\* them, the most recent first.
C24_SummaryAfterDetect ==
    \A outcome \in SummarizerOutcomes, now \in ReportClock :
        \A r \in GenerateReportRuns(
                     Store(tickets, commits, activities, worklogs), alerts,
                     UserSeq[1], SummaryWindow[1], SummaryWindow[2], FALSE,
                     NoSync, outcome, now) :
            ~r.raised =>
                LET h == r.report_data.hygiene
                    counted == {i \in DOMAIN r.alerts :
                        /\ r.alerts[i].user = UserSeq[1]
                        /\ r.alerts[i].detected_for_start
                               >= DateOf(SummaryWindow[1])
                        /\ r.alerts[i].detected_for_end
                               <= DateOf(SummaryWindow[2])
                        /\ ~r.alerts[i].is_resolved}
                    listed == {h.alerts[k] : k \in DOMAIN h.alerts}
                IN  /\ (DOMAIN r.alerts \ DOMAIN alerts) \subseteq counted
                    /\ h.total_alerts = Cardinality(counted)
                    /\ h.total_alerts = SumCounts(h.by_type, DOMAIN h.by_type)
                    /\ \A ty \in DOMAIN h.by_type :
                        h.by_type[ty] =
                            Cardinality({i \in counted :
                                r.alerts[i].alert_type = ty})
                    /\ Len(h.alerts) <= 20
                    /\ Len(h.alerts) =
                           (IF h.total_alerts < 20 THEN h.total_alerts ELSE 20)
                    /\ listed \subseteq counted
                    /\ \A k, l \in DOMAIN h.alerts :
                        k < l => h.alerts[k] > h.alerts[l]
                    /\ \A i \in counted \ listed :
                        \A j \in listed : i < j

\* A report whose detector creates alerts, with more than 20 unresolved
\* alerts of two types to count and a resolved one in the table.
C24_Witness ==
    \E r \in GenerateReportRuns(
                 Store(tickets, commits, activities, worklogs), alerts,
                 UserSeq[1], SummaryWindow[1], SummaryWindow[2], FALSE,
                 NoSync, "text", MaxTime) :
        /\ ~r.raised
        /\ Len(r.alerts) > Len(alerts)
        /\ r.report_data.hygiene.total_alerts > 20
        /\ Cardinality(DOMAIN r.report_data.hygiene.by_type) = 2
        /\ \E i \in DOMAIN alerts : alerts[i].is_resolved

(***************************************************************************)
(* Properties of the effort analysis of a report, under SpecReport.        *)
(***************************************************************************)
\* C25: the effort analysis of a window puts every ticket touched in the
\* window in exactly one of the four buckets and no other ticket in any,
\* each count is the size of its bucket, and the counts add up to
\* stats.total_tickets and to the number of rows of the tickets section.
C25_EffortBuckets ==
    \A u \in AllUsers, w \in ReportWindows :
        LET st == Store(tickets, commits, activities, worklogs)
            e == EffortAnalysisSummary(st, u, w[1], w[2])
            touched == {T \in AllTickets : TouchedKinds(u, T, w[1], w[2]) # {}}
        IN  /\ ~e.raised
            /\ \A T \in touched :
                Cardinality({b \in EffortBuckets : T \in e.details[b]}) = 1
            /\ \A b \in EffortBuckets :
                /\ e.details[b] \subseteq touched
                /\ e.summary[b] = Cardinality(e.details[b])
            /\ SumCounts(e.summary, EffortBuckets)
                   = CalculateStats(commits, activities, worklogs, u, w[1], w[2])
                         .total_tickets
            /\ SumCounts(e.summary, EffortBuckets)
                   = Cardinality(DOMAIN TicketsData(st, u, w[1], w[2]))

(***************************************************************************)
(* Frame of the commit link, under Spec.                                   *)
(***************************************************************************)
\* C27: in every step no commit disappears and no (user, repository, sha)
\* gets a second record; a step that changes the commits is the ingest of
\* one commit, whose ticket is the one found among the tickets known at that
\* moment; the ticket and is_unlinked of a stored commit change only in the
\* ingest of that commit; the ticket, activity and worklog syncs and the
\* detector leave the commits as they are, and so does a generate_report
\* without sync.
C27_LinkFrame ==
    /\ [](\A u \in AllUsers, w \in ReportWindows :
            \A r \in GenerateReportRuns(
                         Store(tickets, commits, activities, worklogs), alerts,
                         u, w[1], w[2], FALSE, NoSync, "text", MaxTime) :
                r.store.commits = commits)
    /\ [][
       /\ \A c \in commits : \E d \in commits' : CommitId(d) = CommitId(c)
       /\ \A d1, d2 \in commits' : CommitId(d1) = CommitId(d2) => d1 = d2
       /\ commits' # commits =>
            \E u \in AllUsers, repo \in Repos, message \in IngestMessages,
               at \in Times :
                \E sha \in {ShaSeq[i] : i \in DOMAIN ShaSeq} :
                    LET d == CommitRecord(u, repo, sha, message, at, tickets)
                    IN  /\ commits' = UpsertCommit(commits, d)
                        /\ d.ticket =
                               FindTicket(tickets, u, ExtractTicketKeys(message))
                        /\ \A c \in commits :
                               CommitId(c) # CommitId(d) => c \in commits'
       /\ (\/ tickets' # tickets
           \/ activities' # activities
           \/ worklogs' # worklogs
           \/ alerts' # alerts) => commits' = commits
      ]_vars

\* A commit that names A-1 was ingested before the ticket A-1 of its user
\* was stored, and is still without a ticket; another commit of the user is
\* linked to that ticket.
C27_Witness ==
    \E c, d \in commits :
        /\ c.ticket = NoTicket
        /\ ~c.is_unlinked
        /\ d.user = c.user
        /\ d.ticket # NoTicket
        /\ d.ticket \in TicketsNamed(tickets, c.user, c.extracted_ticket_keys)

(***************************************************************************)
(* Linking across the two syncs of one call, under SpecSync.               *)
(***************************************************************************)
\* C28: after a sync_data_for_range in which both connectors run and
\* nothing raises, every commit of the GitHub answers whose message names
\* the key of a ticket the user has at the end of the call is linked to a
\* ticket, also when the Jira sync of this call stored that ticket.
C28_LinkedAfterSync ==
    \A w \in SyncWindows, call \in SyncCalls :
        (/\ call.github_connected /\ call.jira_connected
         /\ ~call.github_raises
         /\ call.jira.raises = "no"
         /\ \A j \in DOMAIN TrackedRepos : ~call.answers[TrackedRepos[j]].raises)
        => LET r == SyncDataForRangeRun(
                        Store(tickets, commits, activities, worklogs),
                        UserSeq[1], w[1], w[2], call)
           IN  \A j \in DOMAIN TrackedRepos :
                   \A i \in DOMAIN call.answers[TrackedRepos[j]].items :
                       \A d \in r.store.commits :
                           (/\ CommitId(d) = <<UserSeq[1], TrackedRepos[j],
                                   call.answers[TrackedRepos[j]].items[i].sha>>
                            /\ TicketsNamed(r.store.tickets, UserSeq[1],
                                   d.extracted_ticket_keys) # {})
                           => d.ticket # NoTicket

(***************************************************************************)
(* The alerts a report lists against the record store, under SpecReport    *)
(* (C29) and Spec (C30).                                                   *)
(***************************************************************************)
\* The rule of alert a is violated in [since, until] by the stored records.
ViolationHolds(a, since, until) ==
    \/ /\ a.alert_type = "commit_no_ticket"
       /\ \E c \in commits :
            /\ CommitId(c) = a.commit
            /\ c.is_unlinked
            /\ since <= c.committed_at /\ c.committed_at <= until
    \/ /\ a.alert_type = "status_no_commit"
       /\ StatusChangesInWindow(a.user, a.ticket, since, until) # {}
       /\ CommitsInWindow(a.user, a.ticket, since, until) = {}
    \/ /\ a.alert_type = "time_no_code"
       /\ WorklogsInWindow(a.user, a.ticket, since, until) # {}
       /\ CommitsInWindow(a.user, a.ticket, since, until) = {}
    \/ /\ a.alert_type = "stalled_ticket"
       /\ CommitsInWindow(a.user, a.ticket, since, until) # {}
       /\ StatusChangesInWindow(a.user, a.ticket, since, until) = {}

\* C29: every alert listed in the hygiene summary of a report for
\* [since, until] names a violation that the stored records show in
\* [since, until] when the report is generated.
C29_ListedAlertsHold ==
    \A u \in AllUsers, w \in ReportWindows :
        \A r \in GenerateReportRuns(
                     Store(tickets, commits, activities, worklogs), alerts,
                     u, w[1], w[2], FALSE, NoSync, "text", MaxTime) :
            ~r.raised =>
                \A k \in DOMAIN r.report_data.hygiene.alerts :
                    ViolationHolds(r.alerts[r.report_data.hygiene.alerts[k]],
                                   w[1], w[2])

\* C30: the hygiene summary of a report for [since, until] counts no two
\* alerts of the same alert_type for the same ticket or commit, whatever
\* detection runs over this window and over windows inside it came before:
\* total_alerts is the number of distinct (alert_type, ticket, commit) among
\* the unresolved alerts it counts.
C30_NoDoubleCount ==
    \A u \in AllUsers, w \in Windows :
        \A r \in GenerateReportRuns(
                     Store(tickets, commits, activities, worklogs), alerts,
                     u, w[1], w[2], FALSE, NoSync, "text", MaxTime) :
            ~r.raised =>
                r.report_data.hygiene.total_alerts =
                    Cardinality({<<r.alerts[i].alert_type, r.alerts[i].ticket,
                                   r.alerts[i].commit>> :
                                 i \in Listed(r.alerts, u, w[1], w[2])})

====
